---- MODULE Spec2Model ----
(***************************************************************************)
(* Model of the Weaviate access layer (renderer/lib/weaviate.ts), of the   *)
(* settings collaborator (renderer/lib/settings.ts, main process IPC       *)
(* handlers) and of the dialogs that call them.                            *)
(*                                                                         *)
(* Granularity.  The renderer is single threaded: an async function runs   *)
(* without interruption from the resumption of one awaited external event  *)
(* (a settings lookup, a fetch) to the start of the next one.  Each action *)
(* below is one such run.  getSettings() is read at the step at which its  *)
(* reply resumes initializeWeaviate; replies of one IPC channel arrive in  *)
(* the order of the requests.                                              *)
(*                                                                         *)
(* Strings are TLA+ strings; the JavaScript string methods the code uses   *)
(* (trim, startsWith, includes, replace, toLowerCase, charAt, slice) are   *)
(* the operators of the first section.  JSON values are tagged records.    *)
(***************************************************************************)
EXTENDS Integers, Sequences, FiniteSets, TLC

(***************************************************************************)
(* JavaScript strings                                                      *)
(***************************************************************************)
\* s.charAt(i - 1): the empty string outside the string
CharAt(s, i) == IF i \in 1..Len(s) THEN SubSeq(s, i, i) ELSE ""

Slice(s, from) == SubSeq(s, from + 1, Len(s))

StartsWith(s, p) == Len(s) >= Len(p) /\ SubSeq(s, 1, Len(p)) = p

EndsWith(s, p) == Len(s) >= Len(p) /\ SubSeq(s, Len(s) - Len(p) + 1, Len(s)) = p

IsSpace(c) == c \in {" ", "\t", "\n"}

RECURSIVE TrimStart(_)
TrimStart(s) ==
    IF s # "" /\ IsSpace(CharAt(s, 1)) THEN TrimStart(Slice(s, 1)) ELSE s

RECURSIVE TrimEnd(_)
TrimEnd(s) ==
    IF s # "" /\ IsSpace(CharAt(s, Len(s)))
    THEN TrimEnd(SubSeq(s, 1, Len(s) - 1))
    ELSE s

Trim(s) == TrimEnd(TrimStart(s))

\* s.indexOf(sub), 1-based; 0 when sub does not occur
IndexOf(s, sub) ==
    LET hits == {i \in 1..(Len(s) - Len(sub) + 1) : SubSeq(s, i, i + Len(sub) - 1) = sub}
    IN  IF hits = {} THEN 0 ELSE CHOOSE i \in hits : \A j \in hits : i <= j

Includes(s, sub) == IndexOf(s, sub) # 0

\* s.replace(sub, rep) with a string pattern: the first occurrence only
ReplaceFirst(s, sub, rep) ==
    LET i == IndexOf(s, sub)
    IN  IF i = 0 THEN s
        ELSE SubSeq(s, 1, i - 1) \o rep \o SubSeq(s, i + Len(sub), Len(s))

MapChar(c, from, to) ==
    LET i == IndexOf(from, c) IN IF i = 0 THEN c ELSE CharAt(to, i)

RECURSIVE ToLowerCase(_)
ToLowerCase(s) ==
    IF s = "" THEN ""
    ELSE MapChar(CharAt(s, 1), "ABCDEFGHIJKLMNOPQRSTUVWXYZ", "abcdefghijklmnopqrstuvwxyz")
            \o ToLowerCase(Slice(s, 1))

RECURSIVE ToUpperCase(_)
ToUpperCase(s) ==
    IF s = "" THEN ""
    ELSE MapChar(CharAt(s, 1), "abcdefghijklmnopqrstuvwxyz", "ABCDEFGHIJKLMNOPQRSTUVWXYZ")
            \o ToUpperCase(Slice(s, 1))

RECURSIVE Join(_, _)
Join(parts, sep) ==
    IF parts = <<>> THEN ""
    ELSE IF Len(parts) = 1 THEN parts[1]
    ELSE parts[1] \o sep \o Join(Tail(parts), sep)

\* Array.prototype.filter(Boolean) on an array of strings: drops the empty ones
RECURSIVE FilterBoolean(_)
FilterBoolean(parts) ==
    IF parts = <<>> THEN <<>>
    ELSE IF parts[1] = "" THEN FilterBoolean(Tail(parts))
    ELSE <<parts[1]>> \o FilterBoolean(Tail(parts))

(***************************************************************************)
(* JSON / JavaScript values, tagged                                        *)
(***************************************************************************)
Undefined == [t |-> "undefined"]
JNull == [t |-> "null"]
JNum(n) == [t |-> "num", n |-> n]
JStr(s) == [t |-> "str", s |-> s]
JArr(a) == [t |-> "arr", a |-> a]
JObj(f) == [t |-> "obj", f |-> f]
EmptyObj == JObj(<<>>)

IsNullish(v) == v.t \in {"undefined", "null"}

\* v.k on a value that is neither null nor undefined
Member(v, k) ==
    IF v.t = "obj" /\ k \in DOMAIN v.f THEN v.f[k] ELSE Undefined

\* v?.k
OptMember(v, k) == IF IsNullish(v) THEN Undefined ELSE Member(v, k)

\* a[i] (0-based) on an array value
Element(v, i) ==
    IF v.t = "arr" /\ i + 1 \in DOMAIN v.a THEN v.a[i + 1] ELSE Undefined

\* a ?? b
Coalesce(a, b) == IF IsNullish(a) THEN b ELSE a

\* truthiness of a value
Truthy(v) ==
    CASE v.t \in {"undefined", "null"} -> FALSE
      [] v.t = "num" -> v.n # 0
      [] v.t = "str" -> v.s # ""
      [] OTHER -> TRUE

(***************************************************************************)
(* HTTP                                                                    *)
(***************************************************************************)
Statuses == {200, 204, 403, 404, 500}

StatusText(status) ==
    CASE status = 200 -> "OK"
      [] status = 204 -> "No Content"
      [] status = 403 -> "Forbidden"
      [] status = 404 -> "Not Found"
      [] status = 500 -> "Internal Server Error"

\* Response.ok
Ok(status) == status >= 200 /\ status <= 299

\* what fetch() rejects with when the request cannot be completed
FetchFailure == [name |-> "TypeError", message |-> "Failed to fetch"]

Error(message) == [name |-> "Error", message |-> message]

(***************************************************************************)
(* Inputs                                                                  *)
(***************************************************************************)
MaxIds == 3

\* what the persistent settings store may hold when the program starts: the store
\* is a file that outlives the program, and whatever it holds is loaded as it is
InitialSettings ==
    {[weaviateUrl |-> u, apiKey |-> ""] : u \in {"", " ", "a", "http://a", "http://a/"}}
        \cup {[weaviateUrl |-> "http://a", apiKey |-> "k"]}

\* what the user may have typed in the settings dialog when Save is clicked
TypedSettings ==
    {[weaviateUrl |-> "a", apiKey |-> "k"],
     [weaviateUrl |-> "http://a/", apiKey |-> ""],
     [weaviateUrl |-> "https://b", apiKey |-> "k"],
     [weaviateUrl |-> "", apiKey |-> ""]}

ClassNames == {"Article"}

ObjectIds == {"id1", "id2"}

\* how many of the latest calls to a store that keeps objects are remembered
MaxCalls == 3

IdLists == UNION {[1..n -> ObjectIds] : n \in 0..MaxIds}

(***************************************************************************)
(* State                                                                   *)
(***************************************************************************)
VARIABLES
    settings,       \* the persistent settings store {weaviateUrl, apiKey}
    currentUrl,     \* weaviate.ts: let currentUrl
    currentApiKey,  \* weaviate.ts: let currentApiKey
    modal,          \* SettingsModal: position of handleSave and its settings state
    createModal,    \* CreateCollectionModal: its form, error and loading state
    searchView,     \* SearchView: its results, error and loading state
    op,             \* the access operation being executed and its arguments
    pc,             \* the await at which the operation is suspended
    frame,          \* the operation's local variables
    result,         \* what the operation returned or threw
    reqs,           \* the requests the operation has passed to fetch, in order
    inflight,       \* how many of them have not been answered yet
    loads,          \* the settings each initializeWeaviate of the operation loaded
    lastStatus,     \* status of the last response received (0: none, or fetch failed)
    lastBody,       \* body of the last response received (unreadable: none)
    storeDeleted,   \* identities the store deleted for this operation, in order
    storeObjects,   \* the objects a store that keeps them holds, by identity
    storeCalls,     \* the latest calls made to such a store, with their results
    shell,          \* state of the App component (the application shell)
    cv,             \* state of the mounted CollectionView and of its delete dialog
    tasks           \* the async functions of App and CollectionView that are suspended

vars == <<settings, currentUrl, currentApiKey, modal, createModal, searchView, op, pc,
          frame, result, reqs, inflight, loads, lastStatus, lastBody, storeDeleted,
          storeObjects, storeCalls, shell, cv, tasks>>

conn == <<currentUrl, currentApiKey>>
dialogs == <<modal, createModal, searchView, shell, cv, tasks>>
net == <<reqs, inflight, lastStatus, lastBody, storeDeleted, storeObjects, storeCalls>>

\* how many async functions of App and CollectionView may be suspended at once
MaxTasks == 2

\* Load More is clicked while the offset is under this many pages
MaxPages == 2

\* CollectionView, lines 35 and 19-32, and DeleteObjectsModal, line 16: the state of
\* a CollectionView that has just been mounted.  `data` is the sequence of the pages
\* displayed, each the rows `offset+1 .. offset+n` of the collection under `sort`.
OBJECTS_PER_PAGE == 250

CollectionView ==
    [data |-> <<>>, loading |-> TRUE, loadingMore |-> FALSE, error |-> JNull,
     sortConfig |-> JNull, selectionMode |-> FALSE, selectedIds |-> {},
     deleteModalOpen |-> FALSE, offset |-> 0, canLoadMore |-> TRUE, inputValue |-> "",
     collectionName |-> ""]

\* the store left open: it may answer a request with any response
NoStore == [kept |-> FALSE, objects |-> [i \in {} |-> [t |-> "obj", f |-> <<>>]]]

NoOp == [name |-> "none"]
NoResult == [kind |-> "none"]
NoFrame == [i |-> 0]
ClosedCreateModal == [loading |-> FALSE, error |-> JNull]

Init ==
    /\ settings \in InitialSettings
    /\ currentUrl = ""
    /\ currentApiKey = ""
    /\ modal = [step |-> "closed"]
    /\ createModal = ClosedCreateModal
    /\ searchView = [loading |-> FALSE, results |-> <<>>, error |-> JNull]
    /\ op = NoOp
    /\ pc = "idle"
    /\ frame = NoFrame
    /\ result = NoResult
    /\ reqs = <<>>
    /\ inflight = 0
    /\ loads = <<>>
    /\ lastStatus = 0
    /\ lastBody = [readable |-> FALSE, text |-> "", json |-> [t |-> "invalid"]]
    /\ storeDeleted = <<>>
    /\ storeObjects = NoStore
    /\ storeCalls = <<>>
    /\ shell = [view |-> "collections", activeTab |-> "collections",
                selectedCollection |-> JNull, collections |-> <<>>, loading |-> TRUE,
                error |-> JNull, hasConnection |-> FALSE]
    /\ cv = CollectionView
    /\ tasks = [i \in 1..MaxTasks |-> IF i = 1 THEN [kind |-> "checkConnection"]
                                                ELSE [kind |-> "none"]]

(***************************************************************************)
(* Connection state                                                        *)
(***************************************************************************)
\* faulty variant of InitializeWeaviate: the api key is left as it was
InitializeWeaviateUrlOnly ==
    /\ currentUrl' = settings.weaviateUrl
    /\ currentApiKey' = currentApiKey

\* initializeWeaviate, from the reply of getSettings on
InitializeWeaviate ==
    /\ currentUrl' = settings.weaviateUrl
    /\ currentApiKey' = settings.apiKey

\* faulty variant of NotConfigured: the test without its trim()
NotConfiguredUntrimmed(url) == url = ""

\* !currentUrl || currentUrl.trim() === ''
NotConfigured(url) == url = "" \/ Trim(url) = ""

ConfigurationError == Error("Weaviate URL is not configured. Please set it in Settings.")

\* faulty variant of GetHeaders: the Authorization header whatever the key
GetHeadersAlwaysBearer(apiKey) ==
    ("Content-Type" :> "application/json") @@ ("Authorization" :> ("Bearer " \o apiKey))

GetHeaders(apiKey) ==
    IF apiKey # ""
    THEN ("Content-Type" :> "application/json") @@ ("Authorization" :> ("Bearer " \o apiKey))
    ELSE ("Content-Type" :> "application/json")

Request(method, url, headers, body) ==
    [method |-> method, url |-> url, headers |-> headers, body |-> body]

(***************************************************************************)
(* Settings dialog                                                         *)
(***************************************************************************)
\* faulty variant of FormatUrl: "https://" is not recognised as a scheme
FormatUrlHttpOnly(url) ==
    IF url # "" /\ ~StartsWith(url, "http://") THEN "http://" \o url ELSE url

\* SettingsModal.handleSave: "Format URL properly"
FormatUrl(url) ==
    IF url # "" /\ ~StartsWith(url, "http://") /\ ~StartsWith(url, "https://")
    THEN "http://" \o url
    ELSE url

\* Save is clicked: handleSave runs up to `await saveSettings(...)`.  An operation
\* that has settled (pc = "done") resumes its caller in the same turn of the event
\* loop, so no handler of the dialog runs between the two.
HandleSave(typed) ==
    /\ modal.step = "closed"
    /\ pc # "done"
    /\ modal' = [step |-> "saving", settings |-> typed]
    /\ UNCHANGED <<settings, conn, createModal, searchView, op, pc, frame, result, net, loads,
                 shell, cv, tasks>>

\* the settings collaborator stores the formatted settings
SaveSettings ==
    /\ modal.step = "saving"
    /\ pc # "done"
    /\ settings' = [weaviateUrl |-> FormatUrl(modal.settings.weaviateUrl),
                    apiKey |-> modal.settings.apiKey]
    /\ modal' = [modal EXCEPT !.step = "initializing"]
    /\ UNCHANGED <<conn, createModal, searchView, op, pc, frame, result, net, loads,
                 shell, cv, tasks>>

\* handleSave resumes in `await initializeWeaviate()`, then onSave(); onClose()
HandleSaveInitialized ==
    /\ modal.step = "initializing"
    /\ pc # "done"
    /\ InitializeWeaviate
    /\ modal' = [step |-> "closed"]
    /\ UNCHANGED <<settings, createModal, searchView, op, pc, frame, result, net, loads,
                 shell, cv, tasks>>

(***************************************************************************)
(* Access operations: calling, returning, throwing                         *)
(***************************************************************************)
\* a call by the user of the module (the dialogs are at rest meanwhile)
Begin(name, args) ==
    /\ pc = "idle"
    /\ createModal = ClosedCreateModal
    /\ searchView = [loading |-> FALSE, results |-> <<>>, error |-> JNull]
    /\ op' = [name |-> name, args |-> args]
    /\ pc' = "init"
    /\ UNCHANGED <<settings, conn, dialogs, frame, result, net, loads>>

Throws(error) ==
    /\ pc' = "done"
    /\ result' = [kind |-> "threw", error |-> error]

Returns(value) ==
    /\ pc' = "done"
    /\ result' = [kind |-> "returned", value |-> value]

Awaits(label) ==
    /\ pc' = label
    /\ result' = result

\* fetch(url, {method, headers, body}) is called
Sends(request) ==
    /\ reqs' = Append(reqs, request)
    /\ inflight' = inflight + 1

\* a response to the request in flight is delivered (or fetch rejects)
Receives(response) ==
    /\ inflight' = inflight - 1
    /\ lastStatus' = response.status
    /\ lastBody' = response.body

\* the first step of every operation: `await initializeWeaviate()` completes
Loads ==
    /\ InitializeWeaviate
    /\ loads' = Append(loads, settings)

\* the caller has taken the result; the next call starts afresh
Finish ==
    /\ pc = "done"
    /\ ~createModal.loading
    /\ ~searchView.loading
    /\ op' = NoOp
    /\ pc' = "idle"
    /\ frame' = NoFrame
    /\ result' = NoResult
    /\ reqs' = <<>>
    /\ inflight' = 0
    /\ loads' = <<>>
    /\ lastStatus' = 0
    /\ lastBody' = [readable |-> FALSE, text |-> "", json |-> [t |-> "invalid"]]
    /\ storeDeleted' = <<>>
    /\ storeCalls' = IF storeObjects.kept
                     THEN LET all == Append(storeCalls, [name |-> op.name, args |-> op.args,
                                                         result |-> result])
                          IN  IF Len(all) > MaxCalls THEN Tail(all) ELSE all
                     ELSE storeCalls
    /\ UNCHANGED <<settings, conn, dialogs, storeObjects>>

(***************************************************************************)
(* Responses of the store                                                  *)
(***************************************************************************)
\* a body is its text and what JSON.parse makes of the text
Unparseable == [t |-> "invalid"]
Body(text, json) == [readable |-> TRUE, text |-> text, json |-> json]
\* a body whose reading fails: response.text() and response.json() reject
UnreadableBody == [readable |-> FALSE, text |-> "", json |-> Unparseable]
NoBody == Body("", Unparseable)
HtmlBody == Body("<html>", Unparseable)
NullBody == Body("null", JNull)

Response(status, body) == [failed |-> FALSE, status |-> status, body |-> body]
Rejected == [failed |-> TRUE, status |-> 0, body |-> NoBody]

\* bodies of a response that is not ok
ErrorBodies ==
    {NoBody,
     Body("{\"error\":[{\"message\":\"invalid object\"}]}",
          JObj("error" :> JArr(<<JObj("message" :> JStr("invalid object"))>>)))}

\* the answers the store may give to the request in flight, each with the objects it
\* holds afterwards.  Left open, the store gives any of `responses`.  A store that
\* keeps objects gives the one answer of the objects endpoint: POST stores the
\* properties under an unused identity and answers with the object, GET answers with
\* the object or 404, PATCH merges the properties sent into those of the object
\* (the text of a body that is read with json() is left empty)
StoreAnswers(responses) ==
    IF ~storeObjects.kept
    THEN {[response |-> r, objects |-> storeObjects.objects] : r \in responses}
    ELSE LET objects == storeObjects.objects
             request == reqs[Len(reqs)]
             unused == ObjectIds \ DOMAIN objects
             named == {i \in DOMAIN objects : EndsWith(request.url, "/v1/objects/" \o i)}
             properties == Member(request.body, "properties")
         IN  CASE request.method = "POST" /\ unused # {} ->
                    LET id == CHOOSE i \in unused : TRUE
                        object == JObj(("class" :> Member(request.body, "class"))
                                          @@ ("id" :> JStr(id))
                                          @@ ("properties" :> properties))
                    IN  {[response |-> Response(200, Body("", object)),
                          objects |-> (id :> object) @@ objects]}
               [] request.method = "GET" /\ named # {} ->
                    {[response |-> Response(200, Body("", objects[CHOOSE i \in named : TRUE])),
                      objects |-> objects]}
               [] request.method = "PATCH" /\ named # {} ->
                    LET id == CHOOSE i \in named : TRUE
                        old == Member(objects[id], "properties")
                        merged == IF properties.t # "obj" THEN old
                                  ELSE IF old.t # "obj" THEN properties
                                  ELSE JObj(properties.f @@ old.f)
                    IN  {[response |-> Response(204, NoBody),
                          objects |-> [objects EXCEPT ![id] =
                                         JObj(("properties" :> merged) @@ objects[id].f)]]}
               [] request.method = "POST" /\ unused = {} ->
                    {[response |-> Response(500, NoBody), objects |-> objects]}
               [] OTHER ->
                    {[response |-> Response(404, NoBody), objects |-> objects]}

\* the answers to a request whose response body is not read
PlainResponses == {Rejected} \cup {Response(s, NoBody) : s \in Statuses}

\* what response.json() rejects with
JsonSyntaxError == [name |-> "SyntaxError", message |-> "Unexpected token < in JSON"]
NullDereference == [name |-> "TypeError", message |-> "Cannot read properties of undefined"]

(***************************************************************************)
(* deleteObjects                                                           *)
(***************************************************************************)
CallDeleteObjects(lists) ==
    /\ pc = "idle"
    /\ \E className \in ClassNames, objectIds \in lists :
        Begin("deleteObjects", [className |-> className, objectIds |-> objectIds])

DeleteRequest(url, id, headers) ==
    Request("DELETE", url \o "/v1/objects/" \o id, headers, Undefined)

\* after initializeWeaviate: the url check, getHeaders, and the first iteration
DeleteObjectsStart ==
    /\ pc = "init" /\ op.name = "deleteObjects"
    /\ Loads
    /\ IF NotConfigured(currentUrl')
       THEN /\ Throws(ConfigurationError)
            /\ UNCHANGED <<frame, net>>
       ELSE LET headers == GetHeaders(currentApiKey')
                ids == op.args.objectIds
            IN  /\ frame' = [i |-> 1, headers |-> headers]
                /\ IF ids = <<>>
                   THEN Returns(Undefined) /\ UNCHANGED net
                   ELSE /\ Awaits("fetch")
                        /\ Sends(DeleteRequest(currentUrl', ids[1], headers))
                        /\ UNCHANGED <<lastStatus, lastBody, storeDeleted, storeObjects, storeCalls>>
    /\ UNCHANGED <<settings, dialogs, op>>

\* faulty variant of DeleteError: the status code in place of the status text
DeleteErrorWithStatusCode(id, response) ==
    Error("Failed to delete object: " \o ToString(response.status))

\* the Error thrown for a DELETE that is answered, but not with 2xx
DeleteError(id, response) ==
    Error("Failed to delete object: " \o StatusText(response.status))

\* what the loop does once the DELETE of objectIds[i] has been answered with 2xx
DeleteObjectsNext(i, ids) ==
    IF i < Len(ids)
    THEN /\ Awaits("fetch")
         /\ frame' = [frame EXCEPT !.i = i + 1]
         /\ reqs' = Append(reqs, DeleteRequest(currentUrl, ids[i + 1], frame.headers))
         /\ inflight' = inflight
    ELSE /\ Returns(Undefined)
         /\ frame' = frame
         /\ reqs' = reqs
         /\ inflight' = inflight - 1

\* faulty variant of DeleteObjectsIteration: a DELETE that is refused is logged and
\* the loop goes on
DeleteObjectsIterationLenient(response, i, ids) ==
    IF response.failed
    THEN /\ Throws(FetchFailure)
         /\ inflight' = inflight - 1
         /\ UNCHANGED <<frame, reqs, storeDeleted>>
    ELSE /\ storeDeleted' = IF Ok(response.status)
                            THEN Append(storeDeleted, ids[i]) ELSE storeDeleted
         /\ DeleteObjectsNext(i, ids)

\* one iteration of the loop, from the answer to the DELETE of objectIds[i] on
DeleteObjectsIteration(response, i, ids) ==
    IF response.failed
    THEN /\ Throws(FetchFailure)
         /\ inflight' = inflight - 1
         /\ UNCHANGED <<frame, reqs, storeDeleted>>
    ELSE IF ~Ok(response.status)
    THEN /\ Throws(DeleteError(ids[i], response))
         /\ inflight' = inflight - 1
         /\ UNCHANGED <<frame, reqs, storeDeleted>>
    ELSE /\ storeDeleted' = Append(storeDeleted, ids[i])
         /\ DeleteObjectsNext(i, ids)

\* the DELETE of objectIds[i] is answered
DeleteObjectsReply ==
    /\ pc = "fetch" /\ op.name = "deleteObjects"
    /\ \E response \in PlainResponses :
        /\ lastStatus' = response.status
        /\ lastBody' = response.body
        /\ DeleteObjectsIteration(response, frame.i, op.args.objectIds)
    /\ UNCHANGED <<settings, conn, dialogs, op, loads, storeObjects, storeCalls>>

(***************************************************************************)
(* executeQuery                                                            *)
(***************************************************************************)
CallExecuteQuery ==
    /\ pc = "idle"
    /\ \E queryStr \in {"{ Get { Article { title } } }"} :
        Begin("executeQuery", [queryStr |-> queryStr])

\* JSON.stringify: members whose value is undefined are left out
RECURSIVE JsonStringify(_)
JsonStringify(v) ==
    CASE v.t = "obj" ->
            JObj([k \in {m \in DOMAIN v.f : v.f[m].t # "undefined"} |-> JsonStringify(v.f[k])])
      [] v.t = "arr" ->
            JArr([j \in DOMAIN v.a |->
                    IF v.a[j].t = "undefined" THEN JNull ELSE JsonStringify(v.a[j])])
      [] OTHER -> v

GraphqlRequest(url, headers, queryStr) ==
    Request("POST", url \o "/v1/graphql", headers,
            JsonStringify(JObj("query" :> JStr(queryStr))))

\* executeQuery from the reply of its initializeWeaviate to its fetch; it is called
\* by the user of the module (pc = "init") or by getCollectionData and
\* searchCollections (pc = "eqInit", the document in frame.query)
ExecuteQueryStart ==
    /\ \/ pc = "init" /\ op.name = "executeQuery"
       \/ pc = "eqInit"
    /\ Loads
    /\ IF NotConfigured(currentUrl')
       THEN Throws(ConfigurationError) /\ UNCHANGED net
       ELSE /\ Awaits("eqFetch")
            /\ Sends(GraphqlRequest(currentUrl', GetHeaders(currentApiKey'),
                                    IF op.name = "executeQuery"
                                    THEN op.args.queryStr ELSE frame.query))
            /\ UNCHANGED <<lastStatus, lastBody, storeDeleted, storeObjects, storeCalls>>
    /\ UNCHANGED <<settings, dialogs, op, frame>>

GetRows(rows) == JObj("data" :> JObj("Get" :> JObj("Article" :> JArr(rows))))

QueryBodies ==
    {HtmlBody,
     NullBody,
     Body("{\"errors\":[{\"message\":\"no such class\"}]}",
          JObj("errors" :> JArr(<<JObj("message" :> JStr("no such class"))>>))),
     Body("{\"data\":{}}", JObj("data" :> EmptyObj)),
     Body("{\"data\":{\"Get\":{}}}", JObj("data" :> JObj("Get" :> EmptyObj))),
     Body("{\"data\":{\"Get\":{\"Article\":[]}}}", GetRows(<<>>)),
     Body("{\"data\":{\"Get\":{\"Article\":[row1,row2,null]}}}",
          GetRows(<<JObj(("_additional" :> JObj("id" :> JStr("id1")))
                            @@ ("title" :> JStr("t1"))),
                    JObj("title" :> JStr("t2")),
                    JNull>>))}

QueryResponses ==
    {Rejected} \cup {Response(s, b) : s \in {404, 500}, b \in ErrorBodies}
               \cup {Response(200, b) : b \in QueryBodies}

\* the part of executeQuery after its fetch: what it returns or throws
ExecuteQueryResult(response) ==
    IF response.failed THEN [kind |-> "threw", error |-> FetchFailure]
    ELSE IF ~Ok(response.status)
    THEN [kind |-> "threw", error |-> Error("Query failed: " \o StatusText(response.status))]
    ELSE IF response.body.json = Unparseable
    THEN [kind |-> "threw", error |-> JsonSyntaxError]
    ELSE [kind |-> "returned", value |-> response.body.json]

\* faulty variant of GetCollectionDataResult: every missing level gives the empty list
GetCollectionDataResultLenient(response, className) ==
    LET rows == OptMember(OptMember(OptMember(response, "data"), "Get"), className)
    IN  [kind |-> "returned", value |-> IF Truthy(rows) THEN rows ELSE JArr(<<>>)]

\* getCollectionData after `await executeQuery(query)`
GetCollectionDataResult(response, className) ==
    IF ~Truthy(OptMember(OptMember(response, "data"), "Get"))
    THEN [kind |-> "threw", error |-> Error("Invalid response structure from Weaviate")]
    ELSE LET rows == Member(Member(Member(response, "data"), "Get"), className)
         IN  [kind |-> "returned", value |-> IF Truthy(rows) THEN rows ELSE JArr(<<>>)]

\* searchCollections after `await executeQuery(graphqlQuery)`
SearchCollectionsResult(response, collectionName) ==
    IF ~Truthy(OptMember(OptMember(response, "data"), "Get"))
    THEN [kind |-> "threw", error |-> Error("Invalid response structure from Weaviate")]
    ELSE LET rows == Member(Member(Member(response, "data"), "Get"), collectionName)
         IN  [kind |-> "returned", value |-> IF Truthy(rows) THEN rows ELSE JArr(<<>>)]

ExecuteQueryReply ==
    /\ pc = "eqFetch"
    /\ \E response \in QueryResponses :
        /\ Receives(response)
        /\ LET r == ExecuteQueryResult(response)
           IN  result' =
                 IF r.kind = "threw" \/ op.name = "executeQuery" THEN r
                 ELSE IF op.name = "getCollectionData"
                 THEN GetCollectionDataResult(r.value, op.args.className)
                 ELSE SearchCollectionsResult(r.value, op.args.collectionName)
    /\ pc' = "done"
    /\ UNCHANGED <<settings, conn, dialogs, op, frame, reqs, loads, storeDeleted,
                   storeObjects, storeCalls>>

(***************************************************************************)
(* deleteCollection                                                        *)
(***************************************************************************)
CallDeleteCollection ==
    /\ pc = "idle"
    /\ \E className \in ClassNames : Begin("deleteCollection", [className |-> className])

DeleteCollectionStart ==
    /\ pc = "init" /\ op.name = "deleteCollection"
    /\ Loads
    /\ IF NotConfigured(currentUrl')
       THEN Throws(ConfigurationError) /\ UNCHANGED net
       ELSE /\ Awaits("fetch")
            /\ Sends(Request("DELETE", currentUrl' \o "/v1/schema/" \o op.args.className,
                             GetHeaders(currentApiKey'), Undefined))
            /\ UNCHANGED <<lastStatus, lastBody, storeDeleted, storeObjects, storeCalls>>
    /\ UNCHANGED <<settings, dialogs, op, frame>>

DeleteCollectionReply ==
    /\ pc = "fetch" /\ op.name = "deleteCollection"
    /\ \E response \in PlainResponses :
        /\ Receives(response)
        /\ IF response.failed THEN Throws(FetchFailure)
           ELSE IF ~Ok(response.status)
           THEN Throws(Error("Failed to delete collection: " \o StatusText(response.status)))
           ELSE Returns(Undefined)
    /\ UNCHANGED <<settings, conn, dialogs, op, frame, reqs, loads, storeDeleted,
                   storeObjects, storeCalls>>

(***************************************************************************)
(* createObject, getObjectById, updateObject                               *)
(***************************************************************************)
\* faulty variant of ObjectPayload: the properties are sent beside the class, not
\* under "properties"
ObjectPayloadFlat(className, object) ==
    JsonStringify(JObj(("class" :> JStr(className)) @@ object.f))

ObjectPayload(className, object) ==
    JsonStringify(JObj(("class" :> JStr(className)) @@ ("properties" :> object)))

CallCreateObject ==
    /\ pc = "idle"
    /\ \E className \in ClassNames,
          object \in {JObj(("title" :> JStr("t1")) @@ ("views" :> JNum(1))),
                      JObj("title" :> JStr("t1"))} :
        Begin("createObject", [className |-> className, object |-> object])

CreateObjectStart ==
    /\ pc = "init" /\ op.name = "createObject"
    /\ Loads
    /\ IF NotConfigured(currentUrl')
       THEN Throws(ConfigurationError) /\ UNCHANGED net
       ELSE /\ Awaits("fetch")
            /\ Sends(Request("POST", currentUrl' \o "/v1/objects", GetHeaders(currentApiKey'),
                             ObjectPayload(op.args.className, op.args.object)))
            /\ UNCHANGED <<lastStatus, lastBody, storeDeleted, storeObjects, storeCalls>>
    /\ UNCHANGED <<settings, dialogs, op, frame>>

CreateObjectResponses ==
    {Rejected}
        \cup {Response(s, b) : s \in {404, 500}, b \in ErrorBodies}
        \cup {Response(200, b) :
                b \in {HtmlBody, NullBody, Body("{}", EmptyObj),
                       Body("{\"id\":\"id1\"}", JObj("id" :> JStr("id1")))}}

CreateObjectReply ==
    /\ pc = "fetch" /\ op.name = "createObject"
    /\ \E answer \in StoreAnswers(CreateObjectResponses) :
        LET response == answer.response IN
        /\ Receives(response)
        /\ storeObjects' = [storeObjects EXCEPT !.objects = answer.objects]
        /\ IF response.failed THEN Throws(FetchFailure)
           ELSE IF ~Ok(response.status)
           THEN Throws(Error("Failed to create object: " \o StatusText(response.status)
                                \o ". " \o response.body.text))
           ELSE IF response.body.json = Unparseable THEN Throws(JsonSyntaxError)
           ELSE IF IsNullish(response.body.json) THEN Throws(NullDereference)
           ELSE Returns(Member(response.body.json, "id"))
    /\ UNCHANGED <<settings, conn, dialogs, op, frame, reqs, loads, storeDeleted, storeCalls>>

CallGetObjectById ==
    /\ pc = "idle"
    /\ \E className \in ClassNames, objectId \in ObjectIds :
        Begin("getObjectById", [className |-> className, objectId |-> objectId])

GetObjectByIdStart ==
    /\ pc = "init" /\ op.name = "getObjectById"
    /\ Loads
    /\ IF NotConfigured(currentUrl')
       THEN Throws(ConfigurationError) /\ UNCHANGED net
       ELSE /\ Awaits("fetch")
            /\ Sends(Request("GET", currentUrl' \o "/v1/objects/" \o op.args.objectId,
                             GetHeaders(currentApiKey'), Undefined))
            /\ UNCHANGED <<lastStatus, lastBody, storeDeleted, storeObjects, storeCalls>>
    /\ UNCHANGED <<settings, dialogs, op, frame>>

GetObjectResponses ==
    {Rejected}
        \cup {Response(s, b) : s \in {403, 404, 500}, b \in ErrorBodies}
        \cup {Response(s, b) :
                s \in {200, 204},
                b \in {HtmlBody, NullBody,
                       Body("{\"class\":\"Article\",\"id\":\"id1\"}",
                            JObj(("class" :> JStr("Article")) @@ ("id" :> JStr("id1")))),
                       Body("{\"class\":\"Article\",\"id\":\"id1\",\"properties\":{\"title\":\"t1\"}}",
                            JObj(("class" :> JStr("Article")) @@ ("id" :> JStr("id1"))
                                    @@ ("properties" :> JObj("title" :> JStr("t1")))))}}

\* faulty variant of GetObjectByIdResult: null for every response that is not ok
GetObjectByIdResultNullOnError(response) ==
    IF response.failed THEN [kind |-> "threw", error |-> FetchFailure]
    ELSE IF ~Ok(response.status) THEN [kind |-> "returned", value |-> JNull]
    ELSE IF response.body.json = Unparseable THEN [kind |-> "threw", error |-> JsonSyntaxError]
    ELSE IF IsNullish(response.body.json) THEN [kind |-> "threw", error |-> NullDereference]
    ELSE LET properties == Member(response.body.json, "properties")
         IN  [kind |-> "returned",
              value |-> IF Truthy(properties) THEN properties ELSE EmptyObj]

\* the part of getObjectById after its fetch: what it returns or throws
GetObjectByIdResult(response) ==
    IF response.failed THEN [kind |-> "threw", error |-> FetchFailure]
    ELSE IF ~Ok(response.status)
    THEN IF response.status = 404
         THEN [kind |-> "returned", value |-> JNull]
         ELSE [kind |-> "threw",
               error |-> Error("Failed to fetch object: " \o StatusText(response.status))]
    ELSE IF response.body.json = Unparseable THEN [kind |-> "threw", error |-> JsonSyntaxError]
    ELSE IF IsNullish(response.body.json) THEN [kind |-> "threw", error |-> NullDereference]
    ELSE LET properties == Member(response.body.json, "properties")
         IN  [kind |-> "returned",
              value |-> IF Truthy(properties) THEN properties ELSE EmptyObj]

GetObjectByIdReply ==
    /\ pc = "fetch" /\ op.name = "getObjectById"
    /\ \E answer \in StoreAnswers(GetObjectResponses) :
        /\ Receives(answer.response)
        /\ storeObjects' = [storeObjects EXCEPT !.objects = answer.objects]
        /\ result' = GetObjectByIdResult(answer.response)
    /\ pc' = "done"
    /\ UNCHANGED <<settings, conn, dialogs, op, frame, reqs, loads, storeDeleted, storeCalls>>

CallUpdateObject ==
    /\ pc = "idle"
    /\ \E className \in ClassNames, objectId \in ObjectIds,
          object \in {JObj("title" :> JStr("t2")), JObj("views" :> JNum(2))} :
        Begin("updateObject",
              [className |-> className, objectId |-> objectId, object |-> object])

UpdateObjectStart ==
    /\ pc = "init" /\ op.name = "updateObject"
    /\ Loads
    /\ IF NotConfigured(currentUrl')
       THEN Throws(ConfigurationError) /\ UNCHANGED net
       ELSE /\ Awaits("fetch")
            /\ Sends(Request("PATCH", currentUrl' \o "/v1/objects/" \o op.args.objectId,
                             GetHeaders(currentApiKey'),
                             ObjectPayload(op.args.className, op.args.object)))
            /\ UNCHANGED <<lastStatus, lastBody, storeDeleted, storeObjects, storeCalls>>
    /\ UNCHANGED <<settings, dialogs, op, frame>>

UpdateObjectReply ==
    /\ pc = "fetch" /\ op.name = "updateObject"
    /\ \E answer \in StoreAnswers({Rejected} \cup {Response(s, b) : s \in Statuses,
                                                                     b \in ErrorBodies}) :
        LET response == answer.response IN
        /\ Receives(response)
        /\ storeObjects' = [storeObjects EXCEPT !.objects = answer.objects]
        /\ IF response.failed THEN Throws(FetchFailure)
           ELSE IF ~Ok(response.status)
           THEN Throws(Error("Failed to update object: " \o StatusText(response.status)
                                \o ". " \o response.body.text))
           ELSE Returns(Undefined)
    /\ UNCHANGED <<settings, conn, dialogs, op, frame, reqs, loads, storeDeleted, storeCalls>>

(***************************************************************************)
(* getCollections, getObjectCount, executeAggregateQuery                   *)
(***************************************************************************)
MaxClasses == 2

CollectionName(j) == IF j = 1 THEN "Article" ELSE "Class" \o ToString(j)

\* the j-th class of the store's schema: odd ones are fully described, even ones
\* have neither description nor properties
SchemaClass(j) ==
    IF j % 2 = 1
    THEN JObj(("class" :> JStr(CollectionName(j))) @@ ("description" :> JStr("News"))
                @@ ("properties" :>
                        JArr(<<JObj(("name" :> JStr("title"))
                                        @@ ("dataType" :> JArr(<<JStr("text")>>))),
                               JObj(("name" :> JStr("publishedAt"))
                                        @@ ("dataType" :> JArr(<<JStr("date")>>))
                                        @@ ("description" :> JStr("when")))>>)))
    ELSE JObj("class" :> JStr(CollectionName(j)))

SchemaOf(n) == JObj("classes" :> JArr([j \in 1..n |-> SchemaClass(j)]))

SchemaResponses ==
    {Rejected}
        \cup {Response(s, NoBody) : s \in {404, 500}}
        \cup {Response(200, b) : b \in {HtmlBody, NullBody, Body("{}", EmptyObj)}}
        \cup {Response(200, Body("{\"classes\":[...]}", SchemaOf(n))) : n \in 0..MaxClasses}

CallGetCollections ==
    /\ pc = "idle"
    /\ Begin("getCollections", [none |-> TRUE])

\* getCollections from the reply of its initializeWeaviate to its fetch; it is called
\* by the user of the module (pc = "init") or by searchCollections (pc = "gcInit")
GetCollectionsStart ==
    /\ \/ pc = "init" /\ op.name = "getCollections"
       \/ pc = "gcInit"
    /\ Loads
    /\ IF NotConfigured(currentUrl')
       THEN Throws(ConfigurationError) /\ UNCHANGED net
       ELSE /\ Awaits("gcFetch")
            /\ Sends(Request("GET", currentUrl' \o "/v1/schema",
                             GetHeaders(currentApiKey'), Undefined))
            /\ UNCHANGED <<lastStatus, lastBody, storeDeleted, storeObjects, storeCalls>>
    /\ UNCHANGED <<settings, dialogs, op, frame>>

\* weavClass.properties?.map(...) ?? []
MapProperties(properties) ==
    IF IsNullish(properties) THEN JArr(<<>>)
    ELSE JArr([j \in DOMAIN properties.a |->
                 JObj(("name" :> Member(properties.a[j], "name"))
                        @@ ("dataType" :> Member(properties.a[j], "dataType"))
                        @@ ("description" :> Member(properties.a[j], "description")))])

\* faulty variant of CollectionInfo: the description of the class is not copied
CollectionInfoUndescribed(weavClass, count) ==
    JObj(("name" :> Member(weavClass, "class"))
            @@ ("description" :> Undefined)
            @@ ("count" :> count)
            @@ ("properties" :> MapProperties(Member(weavClass, "properties"))))

\* the CollectionInfo pushed for one schema class
CollectionInfo(weavClass, count) ==
    JObj(("name" :> Member(weavClass, "class"))
            @@ ("description" :> Member(weavClass, "description"))
            @@ ("count" :> count)
            @@ ("properties" :> MapProperties(Member(weavClass, "properties"))))

AggregateQuery(className) == "{ Aggregate { " \o className \o " { meta { count } } } }"

\* faulty variant of SearchDirective: the restriction is written for an empty or
\* absent properties list as well
SearchDirectiveAlwaysRestricted(options) ==
    LET searchType == IF options.searchType = Undefined THEN "bm25" ELSE options.searchType.s
        properties == options.properties
        propertiesList ==
            IF ~IsNullish(properties) /\ Len(properties.a) > 0
            THEN Join([j \in DOMAIN properties.a |-> "\"" \o properties.a[j].s \o "\""], ", ")
            ELSE ""
        restriction == ", properties: [" \o propertiesList \o "]"
    IN  CASE searchType = "bm25" ->
                "bm25: { query: \"" \o options.query \o "\"" \o restriction \o " }"
          [] searchType = "vector" ->
                "nearText: { concepts: [\"" \o options.query \o "\"] }"
          [] searchType = "hybrid" ->
                "hybrid: { query: \"" \o options.query \o "\"" \o restriction \o " }"
          [] OTHER -> ""

\* searchCollections: the search directive for the given search type
SearchDirective(options) ==
    LET searchType == IF options.searchType = Undefined THEN "bm25" ELSE options.searchType.s
        properties == options.properties
        propertiesList ==
            IF ~IsNullish(properties) /\ Len(properties.a) > 0
            THEN Join([j \in DOMAIN properties.a |-> "\"" \o properties.a[j].s \o "\""], ", ")
            ELSE ""
        restriction ==
            IF propertiesList # "" THEN ", properties: [" \o propertiesList \o "]" ELSE ""
    IN  CASE searchType = "bm25" ->
                "bm25: { query: \"" \o options.query \o "\"" \o restriction \o " }"
          [] searchType = "vector" ->
                "nearText: { concepts: [\"" \o options.query \o "\"] }"
          [] searchType = "hybrid" ->
                "hybrid: { query: \"" \o options.query \o "\"" \o restriction \o " }"
          [] OTHER -> ""

\* const limitValue = limit || 10, limit defaulting to 10 when it is undefined
LimitValue(limit) == IF limit = Undefined \/ limit.n = 0 THEN 10 ELSE limit.n

\* collections.find(c => c.name === collectionName)
FindCollection(collections, collectionName) ==
    LET hits == {j \in DOMAIN collections : Member(collections[j], "name") = JStr(collectionName)}
    IN  IF hits = {} THEN Undefined
        ELSE collections[CHOOSE j \in hits : \A k \in hits : j <= k]

\* faulty variant of SearchQuery: the properties of the filter, when one is given,
\* are the fields asked for
SearchQueryFiltered(options, collections) ==
    LET collection == FindCollection(collections, options.collectionName)
        propertyNames ==
            IF ~IsNullish(options.properties)
            THEN [j \in DOMAIN options.properties.a |-> options.properties.a[j].s]
            ELSE IF IsNullish(collection) THEN <<>>
            ELSE [j \in DOMAIN Member(collection, "properties").a |->
                    Member(Member(collection, "properties").a[j], "name").s]
        propertiesToFetch ==
            IF Len(propertyNames) > 0 THEN Join(propertyNames, "\n") ELSE "_additional { id }"
    IN  "{ Get { " \o options.collectionName \o "( " \o SearchDirective(options)
            \o " limit: " \o ToString(LimitValue(options.limit))
            \o " ) { _additional { id score } " \o propertiesToFetch \o " } } }"

\* searchCollections: the document built once getCollections has returned
SearchQuery(options, collections) ==
    LET collection == FindCollection(collections, options.collectionName)
        propertyNames ==
            IF IsNullish(collection) THEN <<>>
            ELSE [j \in DOMAIN Member(collection, "properties").a |->
                    Member(Member(collection, "properties").a[j], "name").s]
        propertiesToFetch ==
            IF Len(propertyNames) > 0 THEN Join(propertyNames, "\n") ELSE "_additional { id }"
    IN  "{ Get { " \o options.collectionName \o "( " \o SearchDirective(options)
            \o " limit: " \o ToString(LimitValue(options.limit))
            \o " ) { _additional { id score } " \o propertiesToFetch \o " } } }"

\* getCollections once the descriptor of classes[i] has been pushed onto result:
\* the next iteration, or the return to the caller
GetCollectionsNext(classes, i, collected) ==
    IF i < Len(classes)
    THEN /\ Awaits("aggInit")
         /\ frame' = [classes |-> classes, i |-> i + 1, result |-> collected]
    ELSE IF op.name = "getCollections"
    THEN /\ Returns(JArr(collected))
         /\ frame' = frame
    ELSE /\ Awaits("eqInit")
         /\ frame' = [query |-> SearchQuery(op.args, collected)]

\* the schema is answered
GetCollectionsSchemaReply ==
    /\ pc = "gcFetch"
    /\ \E response \in SchemaResponses :
        /\ Receives(response)
        /\ IF response.failed THEN Throws(FetchFailure) /\ frame' = frame
           ELSE IF ~Ok(response.status)
           THEN /\ Throws(Error("Failed to fetch schema: " \o StatusText(response.status)))
                /\ frame' = frame
           ELSE IF response.body.json = Unparseable
           THEN Throws(JsonSyntaxError) /\ frame' = frame
           ELSE IF IsNullish(response.body.json)
           THEN Throws(NullDereference) /\ frame' = frame
           ELSE LET classes == Coalesce(Member(response.body.json, "classes"), JArr(<<>>)).a
                IN  GetCollectionsNext(classes, 0, <<>>)
    /\ UNCHANGED <<settings, conn, dialogs, op, reqs, loads, storeDeleted, storeObjects, storeCalls>>

\* executeAggregateQuery from the reply of its initializeWeaviate to its fetch; when
\* it throws, getObjectCount returns 0
GetObjectCountStart ==
    /\ pc = "aggInit"
    /\ Loads
    /\ LET weavClass == frame.classes[frame.i]
           className == Member(weavClass, "class").s
       IN  IF NotConfigured(currentUrl')
           THEN /\ GetCollectionsNext(frame.classes, frame.i,
                                      Append(frame.result, CollectionInfo(weavClass, JNum(0))))
                /\ UNCHANGED net
           ELSE /\ Awaits("aggFetch")
                /\ frame' = frame
                /\ Sends(GraphqlRequest(currentUrl', GetHeaders(currentApiKey'),
                                        AggregateQuery(className)))
                /\ UNCHANGED <<lastStatus, lastBody, storeDeleted, storeObjects, storeCalls>>
    /\ UNCHANGED <<settings, dialogs, op>>

AggregateOf(className, entries) ==
    JObj("data" :> JObj("Aggregate" :> JObj(className :> JArr(entries))))

AggregateBodies(className) ==
    {HtmlBody,
     NullBody,
     Body("{\"errors\":[{\"message\":\"no such class\"}]}",
          JObj("errors" :> JArr(<<JObj("message" :> JStr("no such class"))>>))),
     Body("{\"data\":{}}", JObj("data" :> EmptyObj)),
     Body("{\"data\":{\"Aggregate\":{}}}", JObj("data" :> JObj("Aggregate" :> EmptyObj))),
     Body("{\"data\":{\"Aggregate\":{\"C\":[]}}}", AggregateOf(className, <<>>)),
     Body("{\"data\":{\"Aggregate\":{\"C\":[{\"meta\":{\"count\":3}}]}}}",
          AggregateOf(className, <<JObj("meta" :> JObj("count" :> JNum(3)))>>))}

AggregateResponses(className) ==
    {Rejected} \cup {Response(s, NoBody) : s \in {404, 500}}
               \cup {Response(200, b) : b \in AggregateBodies(className)}

\* executeAggregateQuery after its fetch: what it returns or throws
ExecuteAggregateQueryResult(response) ==
    IF response.failed THEN [kind |-> "threw", error |-> FetchFailure]
    ELSE IF ~Ok(response.status)
    THEN [kind |-> "threw", error |-> Error("Query failed: " \o StatusText(response.status))]
    ELSE IF response.body.json = Unparseable
    THEN [kind |-> "threw", error |-> JsonSyntaxError]
    ELSE [kind |-> "returned", value |-> response.body.json]

\* getObjectCount, given what executeAggregateQuery returned or threw: the count it
\* returns, or the error that leaves it
GetObjectCountResult(aggregate, className) ==
    IF aggregate.kind = "threw" THEN [kind |-> "returned", value |-> JNum(0)]
    ELSE LET aggregateResponse == aggregate.value
         IN  IF IsNullish(aggregateResponse)
             THEN [kind |-> "returned", value |-> JNum(0)]
             ELSE IF IsNullish(Member(aggregateResponse, "data"))
                     \/ IsNullish(Member(Member(aggregateResponse, "data"), "Aggregate"))
             THEN [kind |-> "threw", error |-> NullDereference]
             ELSE LET aggregateData ==
                          Coalesce(Member(Member(Member(aggregateResponse, "data"),
                                                 "Aggregate"), className), JArr(<<>>))
                      count == OptMember(OptMember(Element(aggregateData, 0), "meta"), "count")
                  IN  [kind |-> "returned", value |-> Coalesce(count, JNum(0))]

\* the aggregate query of classes[i] is answered
GetObjectCountReply ==
    /\ pc = "aggFetch"
    /\ LET weavClass == frame.classes[frame.i]
           className == Member(weavClass, "class").s
       IN  \E response \in AggregateResponses(className) :
            /\ Receives(response)
            /\ LET count == GetObjectCountResult(ExecuteAggregateQueryResult(response), className)
               IN  IF count.kind = "threw"
                   THEN Throws(count.error) /\ frame' = frame
                   ELSE GetCollectionsNext(frame.classes, frame.i,
                                           Append(frame.result,
                                                  CollectionInfo(weavClass, count.value)))
    /\ UNCHANGED <<settings, conn, dialogs, op, reqs, loads, storeDeleted, storeObjects, storeCalls>>

(***************************************************************************)
(* getCollectionData, searchCollections                                    *)
(***************************************************************************)
\* The query documents are written with each run of white space of the template
\* literal as one space.
\* `${limit}` and `${offset}` in a template literal
NumberText(v) == IF v = Undefined THEN "undefined" ELSE ToString(v.n)

\* faulty variant of SortDirective: the order as given, not lower-cased
SortDirectiveAsGiven(sort) ==
    IF ~IsNullish(sort)
    THEN "sort: { path: [\"" \o sort.property \o "\"], order: " \o sort.order \o " }"
    ELSE ""

SortDirective(sort) ==
    IF ~IsNullish(sort)
    THEN "sort: { path: [\"" \o sort.property \o "\"], order: "
            \o ToLowerCase(sort.order) \o " }"
    ELSE ""

PaginationDirective(limit, offset) ==
    "limit: " \o NumberText(limit) \o ", offset: " \o NumberText(offset)

\* [sortDirective, paginationDirective].filter(Boolean).join(', ')
Directives(sort, limit, offset) ==
    Join(FilterBoolean(<<SortDirective(sort), PaginationDirective(limit, offset)>>), ", ")

\* the document getCollectionData passes to executeQuery
PageQuery(className, properties, sort, limit, offset) ==
    LET directives == Directives(sort, limit, offset)
    IN  "{ Get { " \o className
            \o (IF directives # "" THEN "(" \o directives \o ")" ELSE "")
            \o " { _additional { id } "
            \o Join([j \in DOMAIN properties |-> properties[j].name], "\n")
            \o " } } }"

CallGetCollectionData(calls) ==
    /\ pc = "idle"
    /\ \E args \in calls : Begin("getCollectionData", args)

\* getCollectionData from the reply of its initializeWeaviate to `await executeQuery`
GetCollectionDataStart ==
    /\ pc = "init" /\ op.name = "getCollectionData"
    /\ Loads
    /\ IF NotConfigured(currentUrl')
       THEN Throws(ConfigurationError) /\ frame' = frame
       ELSE /\ Awaits("eqInit")
            /\ frame' = [query |-> PageQuery(op.args.className, op.args.properties,
                                             op.args.sort, op.args.limit, op.args.offset)]
    /\ UNCHANGED <<settings, dialogs, op, net>>

CallSearchCollections(calls) ==
    /\ pc = "idle"
    /\ \E options \in calls : Begin("searchCollections", options)

\* searchCollections from the reply of its initializeWeaviate to `await getCollections()`
SearchCollectionsStart ==
    /\ pc = "init" /\ op.name = "searchCollections"
    /\ Loads
    /\ IF NotConfigured(currentUrl')
       THEN Throws(ConfigurationError)
       ELSE Awaits("gcInit")
    /\ UNCHANGED <<settings, dialogs, op, frame, net>>

(***************************************************************************)
(* createCollection                                                        *)
(***************************************************************************)
\* currentUrl.replace(/\/$/, '')
StripTrailingSlash(url) ==
    IF EndsWith(url, "/") THEN SubSeq(url, 1, Len(url) - 1) ELSE url

\* schema.class.charAt(0).toUpperCase() + schema.class.slice(1)
Capitalize(name) == ToUpperCase(CharAt(name, 1)) \o Slice(name, 1)

\* the switch over the lower-cased base type
CanonicalType(baseType) ==
    CASE baseType \in {"string", "text"} -> "text"
      [] baseType = "int" -> "int"
      [] baseType = "number" -> "number"
      [] baseType = "boolean" -> "boolean"
      [] baseType = "date" -> "date"
      [] OTHER -> "text"

\* faulty variant of WeaviateDataType: the array branch is missing
WeaviateDataTypeScalar(dataTypes) ==
    LET dataType == IF dataTypes = <<>> \/ dataTypes[1] = "" THEN "string" ELSE dataTypes[1]
    IN  CanonicalType(ToLowerCase(dataType))

\* the Weaviate data type createCollection sends for a property's dataType array
WeaviateDataType(dataTypes) ==
    LET dataType == IF dataTypes = <<>> \/ dataTypes[1] = "" THEN "string" ELSE dataTypes[1]
    IN  IF Includes(dataType, "[]")
        THEN CanonicalType(ToLowerCase(ReplaceFirst(dataType, "[]", ""))) \o "[]"
        ELSE CanonicalType(ToLowerCase(dataType))

MappedProperties(properties) ==
    [j \in DOMAIN properties |->
        JObj(("name" :> JStr(properties[j].name))
                @@ ("dataType" :> JArr(<<JStr(WeaviateDataType(properties[j].dataType))>>))
                @@ ("description" :> properties[j].description))]

WeaviateSchema(schema) ==
    JObj(("class" :> JStr(Capitalize(schema.class)))
            @@ ("description" :> schema.description)
            @@ ("properties" :> JArr(MappedProperties(schema.properties))))

CallCreateCollection(schemas) ==
    /\ pc = "idle"
    /\ \E schema \in schemas : Begin("createCollection", schema)

\* createCollection from the reply of its initializeWeaviate to its fetch
CreateCollectionStart ==
    /\ pc = "init" /\ op.name = "createCollection"
    /\ Loads
    /\ IF NotConfigured(currentUrl')
       THEN Throws(ConfigurationError) /\ UNCHANGED net
       ELSE /\ Awaits("fetch")
            /\ Sends(Request("POST", StripTrailingSlash(currentUrl') \o "/v1/schema",
                             GetHeaders(currentApiKey'),
                             JsonStringify(WeaviateSchema(op.args))))
            /\ UNCHANGED <<lastStatus, lastBody, storeDeleted, storeObjects, storeCalls>>
    /\ UNCHANGED <<settings, dialogs, op, frame>>

RECURSIVE Repeat(_, _)
Repeat(s, n) == IF n = 0 THEN "" ELSE s \o Repeat(s, n - 1)

ErrorJson(text, error) == Body(text, JObj("error" :> error))

CreateCollectionErrorBodies ==
    {NoBody, UnreadableBody, NullBody, HtmlBody,
     Body(Repeat("0123456789", 50), Unparseable),
     Body(Repeat("0123456789", 49) \o "012345678", Unparseable),
     ErrorJson("{\"error\":\"class exists\"}", JStr("class exists")),
     ErrorJson("{\"error\":[{\"message\":\"bad name\"}]}",
               JArr(<<JObj("message" :> JStr("bad name"))>>)),
     ErrorJson("{\"error\":[{}]}", JArr(<<EmptyObj>>)),
     ErrorJson("{\"error\":[null]}", JArr(<<JNull>>)),
     ErrorJson("{\"error\":[]}", JArr(<<>>)),
     ErrorJson("{\"error\":{\"message\":\"denied\"}}", JObj("message" :> JStr("denied"))),
     ErrorJson("{\"error\":{}}", EmptyObj),
     Body("{\"message\":\"top\"}", JObj("message" :> JStr("top"))),
     Body("{}", EmptyObj)}

\* faulty variant of CreateCollectionErrorMessage: the body is not looked at
CreateCollectionErrorMessagePlain(statusText, body) ==
    "Failed to create collection: " \o statusText

\* the message of the Error createCollection throws for a response that is not ok
CreateCollectionErrorMessage(statusText, body) ==
    LET errorText == IF body.readable THEN body.text ELSE "Unknown error"
        errorJson == IF body.readable THEN body.json ELSE Unparseable
        errorMessage == "Failed to create collection: " \o statusText
        unparsed ==
            IF errorText # "" /\ Len(errorText) < 500
            THEN errorMessage \o ". " \o errorText
            ELSE errorMessage
        \* a value used as the message, when it is truthy
        orDefault(v) == IF Truthy(v) /\ v.t = "str" THEN v.s ELSE errorMessage
    IN  IF errorJson = Unparseable \/ IsNullish(errorJson) THEN unparsed
        ELSE LET error == Member(errorJson, "error")
             IN  IF Truthy(error)
                 THEN IF error.t = "arr" /\ Len(error.a) > 0
                      THEN IF IsNullish(error.a[1]) THEN unparsed
                           ELSE orDefault(Member(error.a[1], "message"))
                      ELSE IF error.t = "str" THEN error.s
                      ELSE orDefault(Member(error, "message"))
                 ELSE orDefault(Member(errorJson, "message"))

CreateCollectionResponses ==
    {Rejected}
        \cup {Response(s, b) : s \in {404, 500}, b \in CreateCollectionErrorBodies}
        \cup {Response(200, b) : b \in {HtmlBody, Body("{}", EmptyObj)}}

CreateCollectionReply ==
    /\ pc = "fetch" /\ op.name = "createCollection"
    /\ \E response \in CreateCollectionResponses :
        /\ Receives(response)
        /\ IF response.failed THEN Throws(FetchFailure)
           ELSE IF ~Ok(response.status)
           THEN Throws(Error(CreateCollectionErrorMessage(StatusText(response.status),
                                                          response.body)))
           ELSE Returns(Undefined)
    /\ UNCHANGED <<settings, conn, dialogs, op, frame, reqs, loads, storeDeleted,
                   storeObjects, storeCalls>>

(***************************************************************************)
(* CreateCollectionModal                                                   *)
(***************************************************************************)
\* properties.filter((p) => p.name.trim()).map(...)
RECURSIVE ValidProperties(_)
ValidProperties(properties) ==
    IF properties = <<>> THEN <<>>
    ELSE LET p == properties[1]
         IN  (IF Trim(p.name) # ""
              THEN <<[name |-> Trim(p.name),
                      dataType |-> p.dataType,
                      description |-> IF Trim(p.description) # ""
                                      THEN JStr(Trim(p.description)) ELSE Undefined]>>
              ELSE <<>>) \o ValidProperties(Tail(properties))

\* faulty variant of ValidationError: the names are tested without trim()
ValidationErrorUntrimmed(form) ==
    IF form.collectionName = "" THEN "Collection name is required"
    ELSE IF \A j \in DOMAIN form.properties : form.properties[j].name = ""
    THEN "At least one property is required"
    ELSE ""

\* the validation of handleSubmit: the message of the error it throws, "" when none
ValidationError(form) ==
    IF Trim(form.collectionName) = "" THEN "Collection name is required"
    ELSE IF ValidProperties(form.properties) = <<>> THEN "At least one property is required"
    ELSE ""

\* the schema handleSubmit passes to createCollection
SubmittedSchema(form) ==
    [class |-> Capitalize(Trim(form.collectionName)),
     description |-> IF Trim(form.description) # ""
                     THEN JStr(Trim(form.description)) ELSE Undefined,
     properties |-> ValidProperties(form.properties)]

\* the form is submitted: handleSubmit up to `await createCollection(schema)`, or to
\* its end when the validation fails
HandleSubmit(form) ==
    /\ pc = "idle"
    /\ ~createModal.loading
    /\ searchView = [loading |-> FALSE, results |-> <<>>, error |-> JNull]
    /\ IF ValidationError(form) # ""
       THEN /\ createModal' = [loading |-> FALSE, error |-> JStr(ValidationError(form)),
                               form |-> form]
            /\ UNCHANGED <<op, pc>>
       ELSE /\ createModal' = [loading |-> TRUE, error |-> JNull, form |-> form]
            /\ op' = [name |-> "createCollection", args |-> SubmittedSchema(form)]
            /\ pc' = "init"
    /\ UNCHANGED <<settings, conn, modal, searchView, frame, result, net, loads,
                 shell, cv, tasks>>

\* createCollection has returned or thrown: the rest of handleSubmit
HandleSubmitDone ==
    /\ pc = "done"
    /\ createModal.loading
    /\ createModal' =
         IF result.kind = "returned" THEN ClosedCreateModal
         ELSE [createModal EXCEPT !.loading = FALSE, !.error = JStr(result.error.message)]
    /\ op' = NoOp
    /\ pc' = "idle"
    /\ frame' = NoFrame
    /\ result' = NoResult
    /\ reqs' = <<>>
    /\ inflight' = 0
    /\ loads' = <<>>
    /\ lastStatus' = 0
    /\ lastBody' = [readable |-> FALSE, text |-> "", json |-> [t |-> "invalid"]]
    /\ storeDeleted' = <<>>
    /\ UNCHANGED <<settings, conn, modal, searchView, storeObjects, storeCalls,
                 shell, cv, tasks>>

(***************************************************************************)
(* SearchView                                                              *)
(***************************************************************************)
\* faulty variant of NormalizeResult: the row as it came
NormalizeResultUnchanged(row) == row

\* the callback of searchResults.map(...) in handleSearch (a row is an object or
\* null)
NormalizeResult(row) ==
    LET sidecar == JObj(("id" :> JStr("")) @@ ("score" :> JNum(0)))
    IN  IF ~Truthy(row) \/ row.t # "obj"
        THEN JObj("_additional" :> sidecar)
        ELSE JObj(("_additional" :> IF Truthy(Member(row, "_additional"))
                                    THEN Member(row, "_additional") ELSE sidecar)
                    @@ row.f)

\* Search is clicked: handleSearch up to its `await initializeWeaviate()`, or to its
\* end when the query or the collection is missing
HandleSearch(input) ==
    /\ pc = "idle"
    /\ createModal = ClosedCreateModal
    /\ ~searchView.loading
    /\ IF Trim(input.searchQuery) = "" \/ input.selectedCollection = ""
       THEN /\ searchView' = [searchView EXCEPT
                    !.error = JStr("Please enter a search query and select a collection")]
            /\ UNCHANGED <<op, pc>>
       ELSE /\ searchView' = [loading |-> TRUE, results |-> <<>>, error |-> JNull]
            /\ op' = [name |-> "searchCollections",
                      args |-> [query |-> input.searchQuery,
                                collectionName |-> input.selectedCollection,
                                searchType |-> JStr(input.searchType),
                                limit |-> JNum(input.limit),
                                properties |->
                                    IF Len(input.selectedProperties) > 0
                                    THEN JArr([j \in DOMAIN input.selectedProperties |->
                                                JStr(input.selectedProperties[j])])
                                    ELSE Undefined]]
            /\ pc' = "viewInit"
    /\ UNCHANGED <<settings, conn, modal, createModal, frame, result, net, loads,
                 shell, cv, tasks>>

\* handleSearch resumes from its own initializeWeaviate and calls searchCollections
HandleSearchInitialized ==
    /\ pc = "viewInit"
    /\ InitializeWeaviate
    /\ pc' = "init"
    /\ UNCHANGED <<settings, dialogs, op, frame, result, net, loads>>

\* searchCollections has returned or thrown: the rest of handleSearch
HandleSearchDone ==
    /\ pc = "done"
    /\ searchView.loading
    /\ searchView' =
         IF result.kind = "returned"
         THEN [loading |-> FALSE, error |-> JNull,
               results |-> [j \in DOMAIN result.value.a |-> NormalizeResult(result.value.a[j])]]
         ELSE [loading |-> FALSE, error |-> JStr(result.error.message), results |-> <<>>]
    /\ op' = NoOp
    /\ pc' = "idle"
    /\ frame' = NoFrame
    /\ result' = NoResult
    /\ reqs' = <<>>
    /\ inflight' = 0
    /\ loads' = <<>>
    /\ lastStatus' = 0
    /\ lastBody' = [readable |-> FALSE, text |-> "", json |-> [t |-> "invalid"]]
    /\ storeDeleted' = <<>>
    /\ UNCHANGED <<settings, conn, modal, createModal, storeObjects, storeCalls,
                 shell, cv, tasks>>

(***************************************************************************)
(* Calls                                                                   *)
(***************************************************************************)
MaxProperties == 2

DataTypeTokens ==
    <<"string", "text", "int", "number", "boolean", "date", "uuid", "Int", "DATE", "",
      "string[]", "text[]", "int[]", "number[]", "boolean[]", "date[]", "uuid[]",
      "Int[]", "DATE[]", "[]">>

\* the properties a caller may pass to createCollection: one per data type token,
\* then one without a data type and one without a name
PropertyCatalogue ==
    [j \in 1..Len(DataTypeTokens) |->
        [name |-> "p" \o ToString(j), dataType |-> <<DataTypeTokens[j]>>,
         description |-> IF j % 2 = 0 THEN JStr("d" \o ToString(j)) ELSE Undefined]]
    \o <<[name |-> "views", dataType |-> <<>>, description |-> Undefined],
         [name |-> "", dataType |-> <<"text">>, description |-> Undefined]>>

\* the runs of at most MaxProperties consecutive properties of the catalogue
PropertyLists ==
    UNION {{SubSeq(PropertyCatalogue, a, a + n - 1) :
                a \in 1..(Len(PropertyCatalogue) - n + 1)} : n \in 0..MaxProperties}

Schemas ==
    {[class |-> c, description |-> d, properties |-> ps] :
        c \in {"article", "Article", ""}, d \in {Undefined}, ps \in PropertyLists}
    \cup {[class |-> "news", description |-> JStr("News"),
           properties |-> SubSeq(PropertyCatalogue, 1, 1)]}

Forms ==
    {[collectionName |-> c, description |-> "", properties |-> ps] :
        c \in {"", "  ", " article "},
        ps \in {<<[name |-> "", dataType |-> <<"string">>, description |-> ""]>>,
                <<[name |-> " ", dataType |-> <<"string">>, description |-> ""],
                  [name |-> " title ", dataType |-> <<"int[]">>, description |-> " t "]>>}}

PageProperties ==
    <<[name |-> "title", dataType |-> <<"text">>],
      [name |-> "publishedAt", dataType |-> <<"date">>]>>

PageCalls ==
    {[className |-> "Article", properties |-> SubSeq(PageProperties, 1, n),
      sort |-> sort, limit |-> limit, offset |-> offset] :
        n \in 0..2,
        sort \in {Undefined, JNull}
                    \cup {[t |-> "obj", property |-> "publishedAt", order |-> o] :
                            o \in {"asc", "desc", "DESC"}},
        limit \in {Undefined, JNum(0), JNum(50), JNum(250)},
        offset \in {Undefined, JNum(0), JNum(250)}}

SearchCalls ==
    {[query |-> "cat", collectionName |-> c, searchType |-> st, limit |-> limit,
      properties |-> ps] :
        c \in {"Article", "Class2", "Missing"},
        st \in {Undefined, JStr("bm25"), JStr("vector"), JStr("hybrid")},
        limit \in {Undefined, JNum(0), JNum(5)},
        ps \in {Undefined, JArr(<<>>), JArr(<<JStr("title")>>),
                JArr(<<JStr("title"), JStr("publishedAt")>>)}}

(***************************************************************************)
(* Specification                                                           *)
(***************************************************************************)
\* the access layer under any sequence of calls, the settings as found at start
Next ==
    \/ CallDeleteObjects(IdLists)
    \/ DeleteObjectsStart
    \/ DeleteObjectsReply
    \/ CallExecuteQuery
    \/ ExecuteQueryStart
    \/ ExecuteQueryReply
    \/ CallGetCollections
    \/ GetCollectionsStart
    \/ GetCollectionsSchemaReply
    \/ GetObjectCountStart
    \/ GetObjectCountReply
    \/ CallGetCollectionData(PageCalls)
    \/ GetCollectionDataStart
    \/ CallSearchCollections(SearchCalls)
    \/ SearchCollectionsStart
    \/ CallDeleteCollection
    \/ DeleteCollectionStart
    \/ DeleteCollectionReply
    \/ CallCreateCollection(Schemas)
    \/ CreateCollectionStart
    \/ CreateCollectionReply
    \/ \E form \in Forms : HandleSubmit(form)
    \/ HandleSubmitDone
    \/ /\ pc = "idle"
       /\ \E input \in {[searchQuery |-> q, selectedCollection |-> c,
                           searchType |-> "hybrid", limit |-> 10,
                           selectedProperties |-> ps] :
                             q \in {" ", "cat"}, c \in {"", "Article"},
                             ps \in {<<>>, <<"title">>}} : HandleSearch(input)
    \/ HandleSearchInitialized
    \/ HandleSearchDone
    \/ CallCreateObject
    \/ CreateObjectStart
    \/ CreateObjectReply
    \/ CallGetObjectById
    \/ GetObjectByIdStart
    \/ GetObjectByIdReply
    \/ CallUpdateObject
    \/ UpdateObjectStart
    \/ UpdateObjectReply
    \/ Finish

Spec == Init /\ [][Next]_vars

\* the access layer while the settings dialog saves new settings
NextSettings ==
    \/ \E typed \in TypedSettings : HandleSave(typed)
    \/ SaveSettings
    \/ HandleSaveInitialized
    \/ pc = "idle" /\ CallDeleteObjects({<<"id1", "id2">>})
    \/ DeleteObjectsStart
    \/ DeleteObjectsReply
    \/ CallExecuteQuery
    \/ ExecuteQueryStart
    \/ ExecuteQueryReply
    \/ CallGetCollections
    \/ GetCollectionsStart
    \/ GetCollectionsSchemaReply
    \/ GetObjectCountStart
    \/ GetObjectCountReply
    \/ /\ pc = "idle"
       /\ CallGetCollectionData({[className |-> "Article", properties |-> PageProperties,
                                  sort |-> [t |-> "obj", property |-> "publishedAt",
                                            order |-> "desc"],
                                  limit |-> JNum(250), offset |-> JNum(0)]})
    \/ GetCollectionDataStart
    \/ CallDeleteCollection
    \/ DeleteCollectionStart
    \/ DeleteCollectionReply
    \/ /\ pc = "idle"
       /\ CallCreateCollection({[class |-> "article", description |-> Undefined,
                                 properties |-> SubSeq(PropertyCatalogue, 1, 1)]})
    \/ CreateCollectionStart
    \/ CreateCollectionReply
    \/ CallCreateObject
    \/ CreateObjectStart
    \/ CreateObjectReply
    \/ CallGetObjectById
    \/ GetObjectByIdStart
    \/ GetObjectByIdReply
    \/ CallUpdateObject
    \/ UpdateObjectStart
    \/ UpdateObjectReply
    \/ Finish

SpecSettings == Init /\ [][NextSettings]_vars

\* Calls of createObject, getObjectById and updateObject, one after the other, to a
\* store that keeps the objects and applies PATCH as a merge.
InitStore ==
    /\ settings \in {[weaviateUrl |-> "http://a", apiKey |-> "k"],
                      [weaviateUrl |-> "", apiKey |-> ""]}
    /\ currentUrl = ""
    /\ currentApiKey = ""
    /\ modal = [step |-> "closed"]
    /\ createModal = ClosedCreateModal
    /\ searchView = [loading |-> FALSE, results |-> <<>>, error |-> JNull]
    /\ op = NoOp
    /\ pc = "idle"
    /\ frame = NoFrame
    /\ result = NoResult
    /\ reqs = <<>>
    /\ inflight = 0
    /\ loads = <<>>
    /\ lastStatus = 0
    /\ lastBody = [readable |-> FALSE, text |-> "", json |-> [t |-> "invalid"]]
    /\ storeDeleted = <<>>
    /\ storeObjects = [NoStore EXCEPT !.kept = TRUE]
    /\ storeCalls = <<>>
    /\ shell = [view |-> "collections", activeTab |-> "collections",
                selectedCollection |-> JNull, collections |-> <<>>, loading |-> TRUE,
                error |-> JNull, hasConnection |-> FALSE]
    /\ cv = CollectionView
    /\ tasks = [i \in 1..MaxTasks |-> IF i = 1 THEN [kind |-> "checkConnection"]
                                                ELSE [kind |-> "none"]]

NextStore ==
    \/ CallCreateObject
    \/ CreateObjectStart
    \/ CreateObjectReply
    \/ CallGetObjectById
    \/ GetObjectByIdStart
    \/ GetObjectByIdReply
    \/ CallUpdateObject
    \/ UpdateObjectStart
    \/ UpdateObjectReply
    \/ Finish

SpecStore == InitStore /\ [][NextStore]_vars

(***************************************************************************)
(* The application shell (App.tsx), the collection view                    *)
(* (CollectionView.tsx) and its delete dialog (DeleteObjectsModal.tsx)     *)
(*                                                                         *)
(* A handler runs from the event to its first await; the async function is *)
(* then a task that resumes when what it awaits settles.  Awaits between   *)
(* which no state is set are one task step (initializeWeaviate followed by *)
(* the access operation).  A handler is enabled when the element it is     *)
(* attached to is rendered: CollectionView renders its toolbar, table and  *)
(* dialog unless `error` is set or `loading && data.length === 0`;         *)
(* DynamicTable renders headers and rows unless `loading`; the overlay of  *)
(* an open dialog covers the rest of the view.  State set by the task of a *)
(* component that was unmounted is discarded.                              *)
(***************************************************************************)
\* faulty variant of FetchData: Load More asks for the first page again
FetchDataFromStart(loadMore, c, sortConfig, offset, running) ==
    /\ \E i \in 1..MaxTasks :
          /\ running[i].kind = "none"
          /\ \A j \in 1..(i - 1) : running[j].kind # "none"
          /\ tasks' = [running EXCEPT ![i] =
                          [kind |-> "fetchData", loadMore |-> loadMore,
                           className |-> c.collectionName,
                           sort |-> IF sortConfig = JNull THEN Undefined ELSE sortConfig,
                           limit |-> OBJECTS_PER_PAGE,
                           offset |-> 0]]
    /\ cv' = IF loadMore
             THEN [c EXCEPT !.loadingMore = TRUE]
             ELSE [c EXCEPT !.loading = TRUE, !.data = <<>>, !.offset = 0,
                            !.inputValue = ""]

\* fetchData(loadMore) up to its first await, called on the view state c by a
\* handler whose render saw sortConfig and offset; running are the suspended tasks
FetchData(loadMore, c, sortConfig, offset, running) ==
    /\ \E i \in 1..MaxTasks :
          /\ running[i].kind = "none"
          /\ \A j \in 1..(i - 1) : running[j].kind # "none"
          /\ tasks' = [running EXCEPT ![i] =
                          [kind |-> "fetchData", loadMore |-> loadMore,
                           className |-> c.collectionName,
                           sort |-> IF sortConfig = JNull THEN Undefined ELSE sortConfig,
                           limit |-> OBJECTS_PER_PAGE,
                           offset |-> IF loadMore THEN offset ELSE 0]]
    /\ cv' = IF loadMore
             THEN [c EXCEPT !.loadingMore = TRUE]
             ELSE [c EXCEPT !.loading = TRUE, !.data = <<>>, !.offset = 0,
                            !.inputValue = ""]

\* faulty variant of FetchDataDone: the flags are reset after the try only, not in a
\* finally
FetchDataDoneNoFinally(i) ==
    /\ tasks[i].kind = "fetchData"
    /\ \/ \E n \in {0, OBJECTS_PER_PAGE} :
             LET newData == [sort |-> tasks[i].sort, offset |-> tasks[i].offset, n |-> n]
                 prevData == IF tasks[i].loadMore THEN cv.data ELSE <<>>
             IN  cv' = [cv EXCEPT !.data = IF n = 0 THEN prevData
                                            ELSE Append(prevData, newData),
                                  !.offset = tasks[i].offset + n,
                                  !.canLoadMore = (n = OBJECTS_PER_PAGE),
                                  !.error = JNull,
                                  !.loading = FALSE,
                                  !.loadingMore = FALSE]
       \/ cv' = [cv EXCEPT !.error = JStr("Query failed: Not Found"),
                           !.inputValue = ""]
    /\ tasks' = [tasks EXCEPT ![i] = [kind |-> "none"]]
    /\ UNCHANGED <<settings, conn, modal, createModal, searchView, op, pc, frame,
                   result, net, loads, shell>>

\* fetchData resumes with the page getCollectionData returned (n rows), or in its
\* catch; then its finally
FetchDataDone(i) ==
    /\ tasks[i].kind = "fetchData"
    /\ \/ \E n \in {0, OBJECTS_PER_PAGE} :
             LET newData == [sort |-> tasks[i].sort, offset |-> tasks[i].offset, n |-> n]
                 prevData == IF tasks[i].loadMore THEN cv.data ELSE <<>>
             IN  cv' = [cv EXCEPT !.data = IF n = 0 THEN prevData
                                            ELSE Append(prevData, newData),
                                  !.offset = tasks[i].offset + n,
                                  !.canLoadMore = (n = OBJECTS_PER_PAGE),
                                  !.error = JNull,
                                  !.loading = FALSE,
                                  !.loadingMore = FALSE]
       \/ cv' = [cv EXCEPT !.error = JStr("Query failed: Not Found"),
                           !.loading = FALSE,
                           !.loadingMore = FALSE,
                           !.inputValue = ""]
    /\ tasks' = [tasks EXCEPT ![i] = [kind |-> "none"]]
    /\ UNCHANGED <<settings, conn, modal, createModal, searchView, op, pc, frame,
                   result, net, loads, shell>>

\* faulty variant of HandleSort: without the test of the column's dataType
HandleSortAnyColumn(columnKey) ==
    /\ shell.hasConnection /\ shell.view = "collection"
    /\ cv.error = JNull /\ ~cv.loading /\ ~cv.deleteModalOpen
    /\ LET next ==
               IF cv.sortConfig # JNull /\ cv.sortConfig.property = columnKey
               THEN IF cv.sortConfig.order = "desc"
                    THEN [t |-> "obj", property |-> columnKey, order |-> "asc"]
                    ELSE JNull
               ELSE [t |-> "obj", property |-> columnKey, order |-> "desc"]
       IN  FetchData(FALSE, [cv EXCEPT !.sortConfig = next], next, cv.offset, tasks)
    /\ UNCHANGED <<settings, conn, modal, createModal, searchView, op, pc, frame,
                   result, net, loads, shell>>

\* a click on a column header; the effect on sortConfig runs fetchData(false)
HandleSort(columnKey) ==
    /\ shell.hasConnection /\ shell.view = "collection"
    /\ cv.error = JNull /\ ~cv.loading /\ ~cv.deleteModalOpen
    /\ LET columns == shell.selectedCollection.properties
           found == {k \in DOMAIN columns : columns[k].name = columnKey}
           column == columns[CHOOSE k \in found : \A l \in found : k <= l]
       IN  IF found = {} \/ ~(\E k \in DOMAIN column.dataType : column.dataType[k] = "date")
           THEN UNCHANGED <<cv, tasks>>
           ELSE LET next ==
                        IF cv.sortConfig # JNull /\ cv.sortConfig.property = columnKey
                        THEN IF cv.sortConfig.order = "desc"
                             THEN [t |-> "obj", property |-> columnKey, order |-> "asc"]
                             ELSE JNull
                        ELSE [t |-> "obj", property |-> columnKey, order |-> "desc"]
                IN  FetchData(FALSE, [cv EXCEPT !.sortConfig = next], next, cv.offset,
                              tasks)
    /\ UNCHANGED <<settings, conn, modal, createModal, searchView, op, pc, frame,
                   result, net, loads, shell>>

HandleRefresh ==
    /\ shell.hasConnection /\ shell.view = "collection"
    /\ cv.error = JNull /\ ~(cv.loading /\ cv.data = <<>>) /\ ~cv.deleteModalOpen
    /\ FetchData(FALSE, [cv EXCEPT !.offset = 0, !.data = <<>>], cv.sortConfig,
                 cv.offset, tasks)
    /\ UNCHANGED <<settings, conn, modal, createModal, searchView, op, pc, frame,
                   result, net, loads, shell>>

\* the checkbox of a displayed row
HandleSelect(id) ==
    /\ shell.hasConnection /\ shell.view = "collection"
    /\ cv.error = JNull /\ ~cv.loading /\ ~cv.deleteModalOpen
    /\ cv.selectionMode /\ cv.data # <<>>
    /\ cv' = [cv EXCEPT !.selectedIds = IF id \in @ THEN @ \ {id} ELSE @ \cup {id}]
    /\ UNCHANGED <<settings, conn, modal, createModal, searchView, op, pc, frame,
                   result, net, loads, shell, tasks>>

\* the Delete button of the toolbar; the dialog clears its input when it opens
HandleDeleteClick ==
    /\ shell.hasConnection /\ shell.view = "collection"
    /\ cv.error = JNull /\ ~(cv.loading /\ cv.data = <<>>) /\ ~cv.deleteModalOpen
    /\ cv' = IF cv.selectionMode
             THEN IF Cardinality(cv.selectedIds) > 0
                  THEN [cv EXCEPT !.deleteModalOpen = TRUE, !.inputValue = ""]
                  ELSE [cv EXCEPT !.selectionMode = FALSE]
             ELSE [cv EXCEPT !.selectionMode = TRUE]
    /\ UNCHANGED <<settings, conn, modal, createModal, searchView, op, pc, frame,
                   result, net, loads, shell, tasks>>

\* faulty variant of HandleDelete: onDelete() whatever was typed
HandleDeleteUnchecked ==
    /\ shell.hasConnection /\ shell.view = "collection"
    /\ cv.error = JNull /\ ~(cv.loading /\ cv.data = <<>>) /\ cv.deleteModalOpen
    /\ cv' = [cv EXCEPT !.loading = TRUE]
    /\ \E i \in 1..MaxTasks :
          /\ tasks[i].kind = "none"
          /\ \A j \in 1..(i - 1) : tasks[j].kind # "none"
          /\ tasks' = [tasks EXCEPT ![i] =
                          [kind |-> "deleteObjects",
                           className |-> cv.collectionName,
                           objectIds |-> cv.selectedIds,
                           sortConfig |-> cv.sortConfig]]
    /\ UNCHANGED <<settings, conn, modal, createModal, searchView, op, pc, frame,
                   result, net, loads, shell>>

\* the Delete button of the dialog: handleDelete, and handleDeleteConfirm up to its
\* first await
HandleDelete ==
    /\ shell.hasConnection /\ shell.view = "collection"
    /\ cv.error = JNull /\ ~(cv.loading /\ cv.data = <<>>) /\ cv.deleteModalOpen
    /\ IF ToLowerCase(cv.inputValue) = "delete"
       THEN /\ cv' = [cv EXCEPT !.loading = TRUE]
            /\ \E i \in 1..MaxTasks :
                  /\ tasks[i].kind = "none"
                  /\ \A j \in 1..(i - 1) : tasks[j].kind # "none"
                  /\ tasks' = [tasks EXCEPT ![i] =
                                  [kind |-> "deleteObjects",
                                   className |-> cv.collectionName,
                                   objectIds |-> cv.selectedIds,
                                   sortConfig |-> cv.sortConfig]]
       ELSE UNCHANGED <<cv, tasks>>
    /\ UNCHANGED <<settings, conn, modal, createModal, searchView, op, pc, frame,
                   result, net, loads, shell>>

\* faulty variant of HandleDeleteConfirmDone: the catch also closes the dialog and
\* drops the selection
HandleDeleteConfirmDoneClearing(i) ==
    /\ tasks[i].kind = "deleteObjects"
    /\ \/ FetchData(FALSE,
                    [cv EXCEPT !.deleteModalOpen = FALSE, !.selectionMode = FALSE,
                               !.selectedIds = {}],
                    tasks[i].sortConfig, cv.offset,
                    [tasks EXCEPT ![i] = [kind |-> "none"]])
       \/ /\ cv' = [cv EXCEPT !.error = JStr("Failed to delete object id1: Not Found"),
                              !.loading = FALSE,
                              !.inputValue = "",
                              !.deleteModalOpen = FALSE,
                              !.selectionMode = FALSE,
                              !.selectedIds = {}]
          /\ tasks' = [tasks EXCEPT ![i] = [kind |-> "none"]]
    /\ UNCHANGED <<settings, conn, modal, createModal, searchView, op, pc, frame,
                   result, net, loads, shell>>

\* handleDeleteConfirm resumes after deleteObjects: it goes on to fetchData() of the
\* render that was confirmed, or to its catch and finally
HandleDeleteConfirmDone(i) ==
    /\ tasks[i].kind = "deleteObjects"
    /\ \/ FetchData(FALSE,
                    [cv EXCEPT !.deleteModalOpen = FALSE, !.selectionMode = FALSE,
                               !.selectedIds = {}],
                    tasks[i].sortConfig, cv.offset,
                    [tasks EXCEPT ![i] = [kind |-> "none"]])
       \/ /\ cv' = [cv EXCEPT !.error = JStr("Failed to delete object id1: Not Found"),
                              !.loading = FALSE,
                              !.inputValue = ""]
          /\ tasks' = [tasks EXCEPT ![i] = [kind |-> "none"]]
    /\ UNCHANGED <<settings, conn, modal, createModal, searchView, op, pc, frame,
                   result, net, loads, shell>>

\* loadCollections up to its first await
LoadCollections(running) ==
    /\ shell' = [shell EXCEPT !.loading = TRUE, !.error = JNull]
    /\ \E i \in 1..MaxTasks :
          /\ running[i].kind = "none"
          /\ \A j \in 1..(i - 1) : running[j].kind # "none"
          /\ tasks' = [running EXCEPT ![i] = [kind |-> "loadCollections"]]

\* loadCollections resumes with the list getCollections returned, or in its catch;
\* then its finally
LoadCollectionsDone(i) ==
    /\ tasks[i].kind = "loadCollections"
    /\ \/ \E data \in {<<>>, <<[name |-> "Article", properties |-> PageProperties]>>} :
             shell' = [shell EXCEPT !.collections = data, !.error = JNull,
                                    !.loading = FALSE]
       \/ shell' = [shell EXCEPT !.error = JStr("Failed to fetch schema: Not Found"),
                                 !.loading = FALSE]
    /\ tasks' = [tasks EXCEPT ![i] = [kind |-> "none"]]
    /\ UNCHANGED <<settings, conn, modal, createModal, searchView, op, pc, frame,
                   result, net, loads, cv>>

\* the settings dialog has stored what was typed and calls onSave: checkConnection
\* runs up to `await getSettings()`.  (The model takes the shell and the collection
\* view one at a time: the settings are saved outside the view, and the view is
\* entered when no task of the shell is suspended.)
HandleSettingsSave ==
    /\ shell.view # "collection"
    /\ \E i \in 1..MaxTasks :
          /\ tasks[i].kind = "none"
          /\ \A j \in 1..(i - 1) : tasks[j].kind # "none"
          /\ tasks' = [tasks EXCEPT ![i] = [kind |-> "checkConnection"]]
    /\ \E typed \in {t \in TypedSettings : t.weaviateUrl \in {"a", ""}} :
          /\ settings' = [weaviateUrl |-> FormatUrl(typed.weaviateUrl),
                          apiKey |-> typed.apiKey]
          /\ currentUrl' = settings'.weaviateUrl
          /\ currentApiKey' = settings'.apiKey
    /\ UNCHANGED <<modal, createModal, searchView, op, pc, frame, result, net, loads,
                   shell, cv>>

\* checkConnection resumes: after getSettings it sets hasConnection (which mounts or
\* unmounts what App renders below its header) and awaits initializeWeaviate; after
\* that it enters loadCollections; a rejection takes it to its catch
CheckConnection(i) ==
    /\ tasks[i].kind \in {"checkConnection", "checkConnectionInitialize"}
    /\ LET done == [tasks EXCEPT ![i] = [kind |-> "none"]]
           viewTasks == {"fetchData", "deleteObjects"}
       IN  \/ /\ tasks[i].kind = "checkConnection"
              /\ settings.weaviateUrl # ""
              /\ shell' = [shell EXCEPT !.hasConnection = TRUE]
              /\ IF ~shell.hasConnection /\ shell.view = "collection"
                 THEN FetchData(FALSE,
                                [CollectionView EXCEPT
                                    !.collectionName = shell.selectedCollection.name],
                                JNull, 0,
                                [tasks EXCEPT ![i] = [kind |-> "checkConnectionInitialize"]])
                 ELSE /\ tasks' = [tasks EXCEPT ![i] = [kind |-> "checkConnectionInitialize"]]
                      /\ cv' = cv
           \/ /\ tasks[i].kind = "checkConnection"
              /\ settings.weaviateUrl = ""
              /\ shell' = [shell EXCEPT !.hasConnection = FALSE, !.loading = FALSE]
              /\ cv' = CollectionView
              /\ tasks' = [j \in 1..MaxTasks |->
                              IF done[j].kind \in viewTasks THEN [kind |-> "none"]
                                                            ELSE done[j]]
           \/ /\ tasks[i].kind = "checkConnectionInitialize"
              /\ LoadCollections(done)
              /\ cv' = cv
           \/ /\ shell' = [shell EXCEPT !.error = JStr("Failed to check connection"),
                                        !.loading = FALSE]
              /\ tasks' = done
              /\ cv' = cv
    /\ UNCHANGED <<settings, conn, modal, createModal, searchView, op, pc, frame,
                   result, net, loads>>

\* a click on a collection of the list; mounting CollectionView runs its effect,
\* fetchData(false)
HandleCollectionClick(collectionName) ==
    /\ shell.hasConnection /\ shell.view = "collections" /\ ~shell.loading
    /\ shell.error = JNull /\ \A j \in 1..MaxTasks : tasks[j].kind = "none"
    /\ LET found == {k \in DOMAIN shell.collections :
                        shell.collections[k].name = collectionName}
           collection == shell.collections[CHOOSE k \in found : \A l \in found : k <= l]
       IN  /\ found # {}
           /\ shell' = [shell EXCEPT !.selectedCollection = collection,
                                     !.view = "collection",
                                     !.activeTab = "collections"]
           /\ FetchData(FALSE, [CollectionView EXCEPT !.collectionName = collection.name],
                        JNull, 0, tasks)
    /\ UNCHANGED <<settings, conn, modal, createModal, searchView, op, pc, frame,
                   result, net, loads>>

\* "Back to Collections", of the view or of its error message
HandleBack ==
    /\ shell.hasConnection /\ shell.view = "collection"
    /\ cv.error # JNull \/ ~(cv.loading /\ cv.data = <<>>)
    /\ shell' = [shell EXCEPT !.view = "collections", !.activeTab = "collections",
                              !.selectedCollection = JNull]
    /\ cv' = CollectionView
    /\ tasks' = [j \in 1..MaxTasks |->
                    IF tasks[j].kind \in {"fetchData", "deleteObjects"}
                    THEN [kind |-> "none"] ELSE tasks[j]]
    /\ UNCHANGED <<settings, conn, modal, createModal, searchView, op, pc, frame,
                   result, net, loads>>

\* faulty variant of HandleTabChange: the Search tab is marked active without the
\* view being changed
HandleTabChangeTabOnly(tab) ==
    /\ shell.hasConnection
    /\ shell' = IF tab = "collections"
                THEN [shell EXCEPT !.activeTab = tab, !.view = "collections",
                                   !.selectedCollection = JNull]
                ELSE [shell EXCEPT !.activeTab = tab]
    /\ IF tab = "collections"
       THEN /\ cv' = CollectionView
            /\ tasks' = [j \in 1..MaxTasks |->
                            IF tasks[j].kind \in {"fetchData", "deleteObjects"}
                            THEN [kind |-> "none"] ELSE tasks[j]]
       ELSE UNCHANGED <<cv, tasks>>
    /\ UNCHANGED <<settings, conn, modal, createModal, searchView, op, pc, frame,
                   result, net, loads>>

\* a tab of the header
HandleTabChange(tab) ==
    /\ shell.hasConnection
    /\ shell' = IF tab = "collections"
                THEN [shell EXCEPT !.activeTab = tab, !.view = "collections",
                                   !.selectedCollection = JNull]
                ELSE IF tab = "search"
                THEN [shell EXCEPT !.activeTab = tab, !.view = "search"]
                ELSE [shell EXCEPT !.activeTab = tab]
    /\ cv' = CollectionView
    /\ tasks' = [j \in 1..MaxTasks |->
                    IF tasks[j].kind \in {"fetchData", "deleteObjects"}
                    THEN [kind |-> "none"] ELSE tasks[j]]
    /\ UNCHANGED <<settings, conn, modal, createModal, searchView, op, pc, frame,
                   result, net, loads>>

NextView ==
    \/ HandleSettingsSave
    \/ \E i \in 1..MaxTasks : CheckConnection(i)
    \* the Retry button of the error message, and onDeleteSuccess of the list
    \/ /\ shell.hasConnection
       /\ shell.error # JNull \/ (shell.view = "collections" /\ ~shell.loading)
       /\ LoadCollections(tasks)
       /\ UNCHANGED <<settings, conn, modal, createModal, searchView, op, pc, frame,
                      result, net, loads, cv>>
    \/ \E i \in 1..MaxTasks : LoadCollectionsDone(i)
    \/ \E collectionName \in {"Article"} : HandleCollectionClick(collectionName)
    \/ HandleBack
    \/ \E tab \in {"collections", "search"} : HandleTabChange(tab)
    \/ \E i \in 1..MaxTasks : FetchDataDone(i)
    \/ \E columnKey \in {"title", "publishedAt"} : HandleSort(columnKey)
    \/ HandleRefresh
    \* handleLoadMore: fetchData(true)
    \/ /\ shell.hasConnection /\ shell.view = "collection"
       /\ cv.error = JNull /\ ~(cv.loading /\ cv.data = <<>>) /\ ~cv.deleteModalOpen
       /\ cv.canLoadMore /\ ~cv.loadingMore
       /\ cv.offset < MaxPages * OBJECTS_PER_PAGE
       /\ FetchData(TRUE, cv, cv.sortConfig, cv.offset, tasks)
       /\ UNCHANGED <<settings, conn, modal, createModal, searchView, op, pc, frame,
                      result, net, loads, shell>>
    \* onSuccess of CreateObjectModal and of EditObjectModal: fetchData()
    \/ /\ shell.hasConnection /\ shell.view = "collection"
       /\ cv.error = JNull /\ ~(cv.loading /\ cv.data = <<>>) /\ ~cv.deleteModalOpen
       /\ FetchData(FALSE, cv, cv.sortConfig, cv.offset, tasks)
       /\ UNCHANGED <<settings, conn, modal, createModal, searchView, op, pc, frame,
                      result, net, loads, shell>>
    \/ \E id \in {"id1", "id2"} : HandleSelect(id)
    \/ HandleDeleteClick
    \* handleCancelSelection
    \/ /\ shell.hasConnection /\ shell.view = "collection"
       /\ cv.error = JNull /\ ~(cv.loading /\ cv.data = <<>>) /\ ~cv.deleteModalOpen
       /\ cv.selectionMode
       /\ cv' = [cv EXCEPT !.selectionMode = FALSE, !.selectedIds = {}]
       /\ UNCHANGED <<settings, conn, modal, createModal, searchView, op, pc, frame,
                      result, net, loads, shell, tasks>>
    \* handleInputChange of the dialog
    \/ /\ shell.hasConnection /\ shell.view = "collection"
       /\ cv.error = JNull /\ ~(cv.loading /\ cv.data = <<>>) /\ cv.deleteModalOpen
       /\ \E value \in {"Delete"} : cv' = [cv EXCEPT !.inputValue = value]
       /\ UNCHANGED <<settings, conn, modal, createModal, searchView, op, pc, frame,
                      result, net, loads, shell, tasks>>
    \* onClose of the dialog (its cross, its overlay, the Escape key)
    \/ /\ shell.hasConnection /\ shell.view = "collection"
       /\ cv.error = JNull /\ ~(cv.loading /\ cv.data = <<>>) /\ cv.deleteModalOpen
       /\ cv' = [cv EXCEPT !.deleteModalOpen = FALSE]
       /\ UNCHANGED <<settings, conn, modal, createModal, searchView, op, pc, frame,
                      result, net, loads, shell, tasks>>
    \/ HandleDelete
    \/ \E i \in 1..MaxTasks : HandleDeleteConfirmDone(i)

\* the shell starts on configured or on empty settings; every settings lookup and
\* every network request settles: a suspended task resumes
SpecView ==
    /\ InitStore
    /\ [][NextView]_vars
    /\ \A i \in 1..MaxTasks :
          /\ WF_vars(CheckConnection(i))
          /\ WF_vars(LoadCollectionsDone(i))
          /\ WF_vars(FetchDataDone(i))
          /\ WF_vars(HandleDeleteConfirmDone(i))

(***************************************************************************)
(* Properties                                                              *)
(***************************************************************************)
\* C1: an operation called while the settings hold an empty or blank url fails with
\* the configuration error, and no request has been put on the network for it
C1_NotConfiguredFailsWithoutRequest ==
    LET blank(u) == \A i \in 1..Len(u) : SubSeq(u, i, i) = " "
    IN  (loads # <<>> /\ blank(loads[1].weaviateUrl)) =>
            /\ pc = "done"
            /\ result.kind = "threw"
            /\ result.error.message
                 = "Weaviate URL is not configured. Please set it in Settings."
            /\ reqs = <<>>
            /\ inflight = 0

\* deleteObjects of two objects has failed on a url of one space
C1_Witness ==
    /\ op.name = "deleteObjects"
    /\ Len(op.args.objectIds) = 2
    /\ loads # <<>>
    /\ loads[1].weaviateUrl = " "
    /\ pc = "done"
    /\ result.kind = "threw"

\* C2: deleteObjects issues its DELETE requests one at a time, in the order of the
\* list; a request is issued only when every request before it has succeeded; when
\* a request fails the operation throws, the objects before it stay deleted, the
\* objects after it are not attempted
C2_DeletesInOrderUntilFirstFailure ==
    op.name = "deleteObjects" =>
        LET ids == op.args.objectIds
            n == Len(reqs)
            k == Len(storeDeleted)
        IN  /\ inflight \in {0, 1}
            /\ n <= Len(ids)
            /\ \A j \in 1..n :
                /\ reqs[j].method = "DELETE"
                /\ reqs[j].url = loads[1].weaviateUrl \o "/v1/objects/" \o ids[j]
            /\ k <= n
            /\ storeDeleted = SubSeq(ids, 1, k)
            /\ n > 0 => k >= n - 1
            /\ inflight = 1 => (pc = "fetch" /\ k = n - 1)
            /\ (pc = "done" /\ result.kind = "returned") => (n = Len(ids) /\ k = n)
            /\ (pc = "done" /\ result.kind = "threw" /\ n > 0) => k = n - 1

\* the second of three DELETE requests was refused: one object is gone, the third
\* was never asked for
C2_Witness ==
    /\ op.name = "deleteObjects"
    /\ Len(op.args.objectIds) = 3
    /\ pc = "done"
    /\ result.kind = "threw"
    /\ lastStatus = 500
    /\ Len(reqs) = 2
    /\ storeDeleted = <<op.args.objectIds[1]>>

\* C3 as stated: the error deleteObjects throws names the identifier whose DELETE
\* failed
C3_ErrorNamesFailedId ==
    (op.name = "deleteObjects" /\ pc = "done" /\ result.kind = "threw" /\ reqs # <<>>) =>
        Includes(result.error.message, op.args.objectIds[Len(reqs)])

\* C3: the error deleteObjects throws for a failed DELETE carries the status text of
\* the response (or is the error of fetch itself); the identifier is not in it
C3_ErrorCarriesStatusTextOnly ==
    (op.name = "deleteObjects" /\ pc = "done" /\ result.kind = "threw" /\ reqs # <<>>) =>
        LET failedId == op.args.objectIds[Len(reqs)]
            text == (403 :> "Forbidden") @@ (404 :> "Not Found")
                        @@ (500 :> "Internal Server Error")
        IN  /\ ~Includes(result.error.message, failedId)
            /\ lastStatus # 0 =>
                 result.error.message = "Failed to delete object: " \o text[lastStatus]
            /\ lastStatus = 0 => result.error.message = "Failed to fetch"

\* the DELETE of the second object was answered 404 Not Found
C3_Witness ==
    /\ op.name = "deleteObjects"
    /\ pc = "done"
    /\ result.kind = "threw"
    /\ Len(reqs) = 2
    /\ op.args.objectIds[2] = "id2"
    /\ lastStatus = 404
    /\ result.error.message = "Failed to delete object: Not Found"

\* C4 as stated: once the schema has been read, getCollections returns one entry per
\* class whatever happens to the count queries
C4_CountFailuresAreIsolated ==
    (op.name = "getCollections" /\ pc = "done" /\ "classes" \in DOMAIN frame) =>
        /\ result.kind = "returned"
        /\ Len(result.value.a) = Len(frame.classes)

\* C5: getObjectById returns null exactly when the response is 404; any other
\* response that is not 2xx makes it throw, and a 2xx response never gives null
C5_NullExactlyOnNotFound ==
    (op.name = "getObjectById" /\ pc = "done" /\ reqs # <<>>) =>
        LET text == (403 :> "Forbidden") @@ (500 :> "Internal Server Error")
        IN  /\ (result.kind = "returned" /\ result.value = JNull) <=> lastStatus = 404
            /\ lastStatus \in {403, 500} =>
                 /\ result.kind = "threw"
                 /\ result.error.message = "Failed to fetch object: " \o text[lastStatus]
            /\ (lastStatus \in {200, 204} /\ result.kind = "returned") =>
                 result.value.t = "obj"

\* getObjectById has returned null for a 404
C5_Witness ==
    /\ op.name = "getObjectById"
    /\ pc = "done"
    /\ lastStatus = 404
    /\ result.kind = "returned"
    /\ result.value = JNull

C7_NoTrailingSlash ==
    /\ (loads # <<>> /\ currentUrl # "") =>
            SubSeq(currentUrl, Len(currentUrl), Len(currentUrl)) # "/"
    /\ \A j \in DOMAIN reqs : ~Includes(reqs[j].url, "//v1/")

\* C8: for a schema with a class name and a named property, createCollection posts
\* to /v1/schema the class name with its first letter in upper case and the
\* properties in their order, each under its name and description, with the data type
\* of the table (read without regard to case, "[]" kept, text for anything else)
C8_SchemaPayload ==
    (/\ op.name = "createCollection"
     /\ reqs # <<>>
     /\ op.args.class # ""
     /\ \E j \in DOMAIN op.args.properties : op.args.properties[j].name # "") =>
        LET schema == op.args
            payload == reqs[1].body.f
            upper == ("a" :> "A") @@ ("n" :> "N") @@ ("A" :> "A") @@ ("N" :> "N")
            table == ("string" :> "text") @@ ("text" :> "text") @@ ("int" :> "int")
                        @@ ("number" :> "number") @@ ("boolean" :> "boolean")
                        @@ ("date" :> "date") @@ ("uuid" :> "text") @@ ("Int" :> "int")
                        @@ ("DATE" :> "date") @@ ("" :> "text")
            expected(dataTypes) ==
                IF dataTypes = <<>> THEN "text"
                ELSE LET token == dataTypes[1]
                         n == Len(token)
                     IN  IF token = "[]" THEN "text[]"
                         ELSE IF n >= 2 /\ SubSeq(token, n - 1, n) = "[]"
                         THEN table[SubSeq(token, 1, n - 2)] \o "[]"
                         ELSE table[token]
        IN  /\ Len(reqs) = 1
            /\ reqs[1].method = "POST"
            /\ reqs[1].url \in {"a/v1/schema", "http://a/v1/schema"}
            /\ payload["class"]
                 = JStr(upper[SubSeq(schema.class, 1, 1)]
                            \o SubSeq(schema.class, 2, Len(schema.class)))
            /\ Len(payload["properties"].a) = Len(schema.properties)
            /\ \A j \in DOMAIN schema.properties :
                LET sent == payload["properties"].a[j].f
                    given == schema.properties[j]
                IN  /\ sent["name"] = JStr(given.name)
                    /\ sent["dataType"] = JArr(<<JStr(expected(given.dataType))>>)
                    /\ IF given.description = Undefined
                       THEN "description" \notin DOMAIN sent
                       ELSE sent["description"] = given.description

\* a schema with an "Int" and a "DATE" property has been posted
C8_Witness ==
    /\ op.name = "createCollection"
    /\ op.args.class = "article"
    /\ Len(op.args.properties) = 2
    /\ op.args.properties[1].dataType = <<"Int">>
    /\ op.args.properties[2].dataType = <<"DATE">>
    /\ Len(reqs) = 1
    /\ reqs[1].body.f["properties"].a[2].f["dataType"] = JArr(<<JStr("date")>>)

C10_OneSortOnePagination ==
    (/\ op.name = "getCollectionData"
     /\ reqs # <<>>
     /\ op.args.limit # Undefined
     /\ op.args.offset # Undefined) =>
        LET query == reqs[1].body.f["query"].s
            sort == op.args.sort
            lower == ("asc" :> "asc") @@ ("desc" :> "desc") @@ ("DESC" :> "desc")
            pagination == "limit: " \o ToString(op.args.limit.n)
                            \o ", offset: " \o ToString(op.args.offset.n)
            Occurrences(s, sub) ==
                Cardinality({i \in 1..(Len(s) - Len(sub) + 1) :
                                SubSeq(s, i, i + Len(sub) - 1) = sub})
        IN  /\ Occurrences(query, "limit:") = 1
            /\ Occurrences(query, "offset:") = 1
            /\ IF sort = Undefined \/ sort = JNull
               THEN /\ Occurrences(query, "sort:") = 0
                    /\ Includes(query, "Article(" \o pagination \o ") {")
               ELSE /\ Occurrences(query, "sort:") = 1
                    /\ Includes(query, "Article(sort: { path: [\"" \o sort.property
                                          \o "\"], order: " \o lower[sort.order]
                                          \o " }, " \o pagination \o ") {")

\* a page of 50 sorted by publishedAt, "DESC", has been asked for
C10_Witness ==
    /\ op.name = "getCollectionData"
    /\ reqs # <<>>
    /\ op.args.sort # Undefined
    /\ op.args.sort # JNull
    /\ op.args.sort.order = "DESC"
    /\ op.args.limit = JNum(50)
    /\ op.args.offset = JNum(250)
    /\ Includes(reqs[1].body.f["query"].s, "order: desc }, limit: 50, offset: 250")

\* C11 as stated: no document getCollectionData sends has a pagination directive
\* with an undefined limit or an undefined offset
C11_PaginationValuesAreNumbers ==
    (op.name = "getCollectionData" /\ reqs # <<>>) =>
        /\ ~Includes(reqs[1].body.f["query"].s, "limit: undefined")
        /\ ~Includes(reqs[1].body.f["query"].s, "offset: undefined")

C13_ReturnedRowsHaveSidecar ==
    (/\ op.name \in {"getCollectionData", "searchCollections"}
     /\ pc = "done"
     /\ result.kind = "returned") =>
        \A j \in DOMAIN result.value.a :
            /\ result.value.a[j].t = "obj"
            /\ "_additional" \in DOMAIN result.value.a[j].f

\* C13: getCollectionData and searchCollections return the rows of the answer as
\* they are, a row without sidecar included; the sidecar {id: "", score: 0} is given
\* by handleSearch of the search view, to the rows searchCollections returned: a
\* row that is no object becomes the sidecar alone, any other row keeps its fields
C13_SidecarDefaultedBySearchView ==
    [][/\ (/\ pc # "done" /\ pc' = "done"
           /\ op.name \in {"getCollectionData", "searchCollections"}
           /\ result'.kind = "returned"
           /\ result'.value.a # <<>>) =>
            result'.value = lastBody'.json.f["data"].f["Get"].f["Article"]
       /\ (searchView.loading /\ ~searchView'.loading /\ result.kind = "returned") =>
            LET rows == result.value.a
                shown == searchView'.results
                default == [t |-> "obj",
                            f |-> ("id" :> [t |-> "str", s |-> ""])
                                    @@ ("score" :> [t |-> "num", n |-> 0])]
            IN  /\ Len(shown) = Len(rows)
                /\ \A j \in DOMAIN rows :
                    /\ shown[j].t = "obj"
                    /\ IF rows[j].t # "obj"
                       THEN shown[j].f = ("_additional" :> default)
                       ELSE /\ DOMAIN shown[j].f = DOMAIN rows[j].f \cup {"_additional"}
                            /\ \A k \in DOMAIN rows[j].f : shown[j].f[k] = rows[j].f[k]
                            /\ "_additional" \notin DOMAIN rows[j].f =>
                                 shown[j].f["_additional"] = default]_vars

\* the search view shows a row of the answer that had no sidecar
C13_Witness ==
    /\ ~searchView.loading
    /\ Len(searchView.results) = 3
    /\ searchView.results[2].f["title"] = [t |-> "str", s |-> "t2"]
    /\ searchView.results[2].f["_additional"].f["id"] = [t |-> "str", s |-> ""]
    /\ searchView.results[2].f["_additional"].f["score"] = [t |-> "num", n |-> 0]

\* C14: the document searchCollections sends asks for id and score and for every
\* property the schema, fetched before, names for the collection (in the schema the
\* store answers with, Article has title and publishedAt and the other classes have
\* no property; there are as many count queries as classes); the properties of the
\* filter have no part in it
C14_SearchRequestsAllSchemaProperties ==
    (/\ op.name = "searchCollections"
     /\ reqs # <<>>
     /\ reqs[Len(reqs)].method = "POST"
     /\ Includes(reqs[Len(reqs)].body.f["query"].s, "{ Get {")) =>
        LET document == reqs[Len(reqs)].body.f["query"].s
            classes == Len(reqs) - 2
            fields == IF classes >= 1 /\ op.args.collectionName = "Article"
                      THEN "title\npublishedAt"
                      ELSE "_additional { id }"
            selection == ") { _additional { id score } " \o fields \o " } } }"
        IN  /\ classes >= 0
            /\ reqs[1].method = "GET"
            /\ reqs[1].url = loads[1].weaviateUrl \o "/v1/schema"
            /\ inflight <= 1
            /\ Len(document) > Len(selection)
            /\ SubSeq(document, Len(document) - Len(selection) + 1, Len(document)) = selection

\* a search of Article restricted to title has asked for title and publishedAt
C14_Witness ==
    /\ op.name = "searchCollections"
    /\ op.args.collectionName = "Article"
    /\ op.args.properties = [t |-> "arr", a |-> <<[t |-> "str", s |-> "title"]>>]
    /\ Len(reqs) >= 3
    /\ reqs[Len(reqs)].method = "POST"
    /\ Includes(reqs[Len(reqs)].body.f["query"].s, "score } title\npublishedAt }")

\* C15: the document searchCollections sends has one search directive, the one of
\* the search type (bm25 when none is given): bm25 and hybrid with the query text,
\* and with a properties restriction exactly when a non-empty properties list is
\* given; nearText for vector with the query as concept and never a restriction
C15_OneSearchDirective ==
    (/\ op.name = "searchCollections"
     /\ reqs # <<>>
     /\ reqs[Len(reqs)].method = "POST"
     /\ Includes(reqs[Len(reqs)].body.f["query"].s, "{ Get {")) =>
        LET document == reqs[Len(reqs)].body.f["query"].s
            type == IF op.args.searchType = [t |-> "undefined"] THEN "bm25"
                    ELSE op.args.searchType.s
            given == IF op.args.properties = [t |-> "undefined"] THEN 0
                     ELSE Len(op.args.properties.a)
            restriction == CASE given = 0 -> ""
                             [] given = 1 -> ", properties: [\"title\"]"
                             [] given = 2 -> ", properties: [\"title\", \"publishedAt\"]"
            directive ==
                CASE type = "bm25" -> "bm25: { query: \"cat\"" \o restriction \o " }"
                  [] type = "hybrid" -> "hybrid: { query: \"cat\"" \o restriction \o " }"
                  [] type = "vector" -> "nearText: { concepts: [\"cat\"] }"
            head == "{ Get { " \o op.args.collectionName \o "( " \o directive \o " limit: "
            Occurrences(s, sub) ==
                Cardinality({i \in 1..(Len(s) - Len(sub) + 1) :
                                SubSeq(s, i, i + Len(sub) - 1) = sub})
        IN  /\ Len(document) > Len(head)
            /\ SubSeq(document, 1, Len(head)) = head
            /\ Occurrences(document, "bm25:") + Occurrences(document, "hybrid:")
                    + Occurrences(document, "nearText:") = 1
            /\ Occurrences(document, "properties:")
                    = IF type # "vector" /\ given > 0 THEN 1 ELSE 0

\* a vector search given two properties has been sent without a restriction
C15_Witness ==
    /\ op.name = "searchCollections"
    /\ op.args.searchType = [t |-> "str", s |-> "vector"]
    /\ op.args.properties # [t |-> "undefined"]
    /\ Len(op.args.properties.a) = 2
    /\ reqs # <<>>
    /\ reqs[Len(reqs)].method = "POST"
    /\ Includes(reqs[Len(reqs)].body.f["query"].s, "( nearText: { concepts: [\"cat\"] } limit: ")

\* C16: every request an operation sends has the header Content-Type:
\* application/json, and the header Authorization: Bearer c exactly when the api key
\* c its latest initializeWeaviate loaded is not empty
C16_HeadersOfEveryRequest ==
    [][(Len(reqs') = Len(reqs) + 1) =>
          LET request == reqs'[Len(reqs')]
              c == loads'[Len(loads')].apiKey
          IN  /\ loads' # <<>>
              /\ DOMAIN request.headers
                   = IF c = "" THEN {"Content-Type"} ELSE {"Content-Type", "Authorization"}
              /\ request.headers["Content-Type"] = "application/json"
              /\ c # "" => request.headers["Authorization"] = "Bearer " \o c]_vars

\* the second DELETE of deleteObjects went out with the key loaded at its start,
\* which the settings no longer hold
C16_Witness ==
    /\ op.name = "deleteObjects"
    /\ Len(reqs) = 2
    /\ loads[1].apiKey = "k"
    /\ settings.apiKey = ""
    /\ currentApiKey = ""
    /\ reqs[2].headers = ("Content-Type" :> "application/json")
                            @@ ("Authorization" :> "Bearer k")

\* C17: whatever the interleaving of operations and saves of the settings dialog, the
\* pair (currentUrl, currentApiKey) is at every moment the pair of one settings
\* snapshot (one the store started with or one the dialog saved), or the empty pair
\* the module starts with; and every step that changes either of the two takes both
\* from the snapshot of that moment
C17_PairOfOneSnapshot ==
    [][LET snapshots ==
               InitialSettings
                 \cup {[weaviateUrl |-> FormatUrl(t.weaviateUrl), apiKey |-> t.apiKey]
                          : t \in TypedSettings}
                 \cup {[weaviateUrl |-> "", apiKey |-> ""]}
       IN  /\ [weaviateUrl |-> currentUrl', apiKey |-> currentApiKey'] \in snapshots
           /\ conn' # conn
                => /\ currentUrl' = settings.weaviateUrl
                   /\ currentApiKey' = settings.apiKey]_vars

\* an operation waits for the store while the dialog has replaced both the url and
\* the api key it loaded
C17_Witness ==
    /\ pc \in {"fetch", "gcFetch", "aggFetch"}
    /\ loads # <<>>
    /\ currentUrl # loads[Len(loads)].weaviateUrl
    /\ currentApiKey # loads[Len(loads)].apiKey
    /\ currentUrl = settings.weaviateUrl
    /\ currentApiKey = settings.apiKey
    /\ currentUrl # ""

\* C18: against a store that keeps objects and applies PATCH as a merge, in calls made
\* one after the other: when createObject(c, p) has returned i, a getObjectById(c, i)
\* that follows returns p; and when getObjectById(c, i) has returned an object q and
\* updateObject(c, i, u) has returned next, a further getObjectById(c, i) returns q
\* with the fields of u set to the values of u and every other field as in q.  With
\* q = p this is the round trip create, get, update, get.
C18_RoundTrip ==
    storeObjects.kept =>
        /\ \A j \in 1..(Len(storeCalls) - 1) :
              LET create == storeCalls[j]
                  get == storeCalls[j + 1]
              IN  (/\ create.name = "createObject"
                   /\ create.result.kind = "returned"
                   /\ get.name = "getObjectById"
                   /\ get.args.className = create.args.className
                   /\ JStr(get.args.objectId) = create.result.value)
                    => get.result = [kind |-> "returned", value |-> create.args.object]
        /\ \A j \in 1..(Len(storeCalls) - 2) :
              LET before == storeCalls[j]
                  update == storeCalls[j + 1]
                  after == storeCalls[j + 2]
              IN  (/\ before.name = "getObjectById"
                   /\ before.result.kind = "returned"
                   /\ before.result.value.t = "obj"
                   /\ update.name = "updateObject"
                   /\ update.result.kind = "returned"
                   /\ update.args.objectId = before.args.objectId
                   /\ after.name = "getObjectById"
                   /\ after.args.objectId = before.args.objectId)
                    => LET q == before.result.value.f
                           u == update.args.object.f
                       IN  /\ after.result.kind = "returned"
                           /\ after.result.value.t = "obj"
                           /\ DOMAIN after.result.value.f = DOMAIN q \cup DOMAIN u
                           /\ \A k \in DOMAIN u : after.result.value.f[k] = u[k]
                           /\ \A k \in DOMAIN q \ DOMAIN u : after.result.value.f[k] = q[k]

\* an object created with a title and a count was read, was given another title, and
\* was read again with the new title and the same count
C18_Witness ==
    /\ storeObjects.kept
    /\ Len(storeCalls) = 3
    /\ storeCalls[1].name = "getObjectById"
    /\ storeCalls[1].result
         = [kind |-> "returned",
            value |-> JObj(("title" :> JStr("t1")) @@ ("views" :> JNum(1)))]
    /\ storeCalls[2].name = "updateObject"
    /\ storeCalls[2].args.objectId = storeCalls[1].args.objectId
    /\ storeCalls[2].args.object = JObj("title" :> JStr("t2"))
    /\ storeCalls[2].result.kind = "returned"
    /\ storeCalls[3].name = "getObjectById"
    /\ storeCalls[3].args.objectId = storeCalls[1].args.objectId
    /\ storeCalls[3].result
         = [kind |-> "returned",
            value |-> JObj(("title" :> JStr("t2")) @@ ("views" :> JNum(1)))]

\* C19: when getCollections returns, its result has one descriptor for each class of
\* the schema the store answered with, in the order of the schema: the j-th has the
\* name and the description of the j-th class (no description when the class has
\* none) and its properties, by name and data type, in the order of the class (none
\* when the class has none); a schema without `classes` gives the empty list
C19_OneDescriptorPerClassInOrder ==
    (op.name = "getCollections" /\ pc = "done" /\ result.kind = "returned") =>
        LET n == Len(reqs) - 1
            described(j) == j % 2 = 1
            descriptors == result.value.a
        IN  /\ result.value.t = "arr"
            /\ Len(descriptors) = n
            /\ n = 0 => lastBody.json \in {EmptyObj, JObj("classes" :> JArr(<<>>))}
            /\ n > 0 => /\ Len(frame.classes) = n
                        /\ \A j \in 1..n :
                             frame.classes[j].f["class"] = JStr(CollectionName(j))
            /\ \A j \in 1..n :
                 LET properties == descriptors[j].f["properties"].a
                 IN  /\ descriptors[j].f["name"] = JStr(CollectionName(j))
                     /\ descriptors[j].f["description"]
                          = IF described(j) THEN JStr("News") ELSE Undefined
                     /\ [k \in DOMAIN properties |->
                           <<properties[k].f["name"], properties[k].f["dataType"]>>]
                          = IF described(j)
                            THEN <<<<JStr("title"), JArr(<<JStr("text")>>)>>,
                                   <<JStr("publishedAt"), JArr(<<JStr("date")>>)>>>>
                            ELSE <<>>

\* getCollections has returned the descriptors of a schema of two classes, the
\* first with its two properties, the second without properties
C19_Witness ==
    /\ op.name = "getCollections" /\ pc = "done" /\ result.kind = "returned"
    /\ Len(reqs) = 3
    /\ Len(result.value.a) = 2
    /\ result.value.a[1].f["name"] = JStr("Article")
    /\ Len(result.value.a[1].f["properties"].a) = 2
    /\ result.value.a[2].f["name"] = JStr("Class2")
    /\ result.value.a[2].f["properties"] = JArr(<<>>)

C24_OnePairPerInvocation ==
    \A i \in DOMAIN reqs :
        /\ loads # <<>>
        /\ \/ StartsWith(reqs[i].url, loads[1].weaviateUrl \o "/v1/")
           \/ StartsWith(reqs[i].url, StripTrailingSlash(loads[1].weaviateUrl) \o "/v1/")
        /\ reqs[i].headers = GetHeaders(loads[1].apiKey)


C23_DeleteOnlyAfterConfirmation ==
    [][/\ \A i \in 1..MaxTasks :
             (tasks'[i].kind = "deleteObjects" /\ tasks[i].kind # "deleteObjects") =>
                 /\ cv.selectionMode
                 /\ cv.selectedIds # {}
                 /\ cv.deleteModalOpen
                 /\ ToLowerCase(cv.inputValue) = "delete"
                 /\ tasks'[i].objectIds = cv.selectedIds
                 /\ tasks'[i].className = shell.selectedCollection.name
       /\ ~(cv'.selectedIds \subseteq cv.selectedIds) => cv.selectionMode
       /\ (cv'.deleteModalOpen /\ ~cv.deleteModalOpen) =>
             /\ cv.selectionMode
             /\ cv.selectedIds # {}
             /\ cv'.selectedIds = cv.selectedIds
             /\ cv'.inputValue = ""
       /\ (cv'.inputValue # cv.inputValue /\ cv'.inputValue # "") =>
             cv.deleteModalOpen]_vars

\* deleteObjects is running for the two rows that were selected, after 'Delete' was
\* typed into the dialog
C23_Witness ==
    /\ shell.view = "collection"
    /\ cv.deleteModalOpen
    /\ cv.inputValue = "Delete"
    /\ cv.selectedIds = {"id1", "id2"}
    /\ \E i \in 1..MaxTasks :
          tasks[i] = [kind |-> "deleteObjects", className |-> "Article",
                      objectIds |-> {"id1", "id2"}, sortConfig |-> JNull]


\* C25 as stated: when the view is mounted, shows no error and no fetchData is
\* suspended, the pages displayed were all fetched under the current sort configuration, each starts
\* where the one before ends, the first at offset 0, and the stored offset is the
\* number of rows displayed
C25_RowsAreConsecutivePagesOfCurrentSort ==
    LET RECURSIVE Rows(_)
        Rows(d) == IF d = <<>> THEN 0 ELSE d[1].n + Rows(Tail(d))
    IN  (/\ shell.hasConnection /\ shell.view = "collection"
         /\ cv.error = JNull
         /\ \A i \in 1..MaxTasks : tasks[i].kind # "fetchData") =>
            /\ \A k \in DOMAIN cv.data :
                  /\ cv.data[k].sort = IF cv.sortConfig = JNull THEN Undefined
                                       ELSE cv.sortConfig
                  /\ cv.data[k].offset = Rows(SubSeq(cv.data, 1, k - 1))
            /\ cv.offset = Rows(cv.data)


\* C26: a fetch asks for 250 rows, from the stored offset when it is a Load More and
\* from 0 otherwise, in which case the rows displayed and the stored offset are
\* reset; and when a fetch ends that was the only one suspended and finds the rows
\* and the offset as they were when it asked (which is so when fetches do not
\* overlap), the stored offset is the number of rows displayed afterwards, the page
\* of a Load More is added after the rows displayed and the page of another fetch
\* replaces them
C26_OffsetIsRowCountWithoutOverlap ==
    [][LET RECURSIVE Rows(_)
           Rows(d) == IF d = <<>> THEN 0 ELSE d[1].n + Rows(Tail(d))
       IN  \A i \in 1..MaxTasks :
              /\ (tasks'[i].kind = "fetchData" /\ tasks[i].kind # "fetchData") =>
                    /\ tasks'[i].limit = 250
                    /\ tasks'[i].className = shell'.selectedCollection.name
                    /\ tasks'[i].loadMore =>
                          /\ tasks'[i].offset = cv.offset
                          /\ cv'.data = cv.data /\ cv'.offset = cv.offset
                    /\ ~tasks'[i].loadMore =>
                          /\ tasks'[i].offset = 0
                          /\ cv'.data = <<>> /\ cv'.offset = 0
              /\ (/\ tasks[i].kind = "fetchData" /\ tasks'[i].kind = "none"
                  /\ shell'.view = "collection"
                  /\ \A j \in 1..MaxTasks : j # i => tasks[j].kind # "fetchData"
                  /\ Rows(cv.data) = tasks[i].offset
                  /\ cv.offset = tasks[i].offset) =>
                    /\ cv'.offset = Rows(cv'.data)
                    /\ \/ cv'.data = cv.data
                       \/ /\ Len(cv'.data) = Len(cv.data) + 1
                          /\ SubSeq(cv'.data, 1, Len(cv.data)) = cv.data
                          /\ cv'.data[Len(cv'.data)].offset = tasks[i].offset
                          /\ cv'.data[Len(cv'.data)].sort = tasks[i].sort
                    /\ ~tasks[i].loadMore => Len(cv'.data) <= 1]_vars

\* a Load More that did not overlap another fetch has added the second page
C26_Witness ==
    /\ shell.view = "collection"
    /\ \A i \in 1..MaxTasks : tasks[i].kind = "none"
    /\ cv.error = JNull
    /\ cv.data = <<[sort |-> Undefined, offset |-> 0, n |-> 250],
                   [sort |-> Undefined, offset |-> 250, n |-> 250]>>
    /\ cv.offset = 500
    /\ cv.canLoadMore


\* C27: at most one deleteObjects call of the collection view is suspended at any
\* time
C27_AtMostOneDeletionInFlight ==
    \A i, j \in 1..MaxTasks :
       (tasks[i].kind = "deleteObjects" /\ tasks[j].kind = "deleteObjects") => i = j


\* C28: when a deleteObjects call of the collection view ends, either it failed: the
\* selection, the selection mode and the open dialog are as before, an error
\* message is set and no fetch is started; or it succeeded: the selection is
\* empty, the selection mode is left, the dialog is closed and a fetch from
\* offset 0 is started
C28_FailedDeletionKeepsSelection ==
    [][\A i \in 1..MaxTasks :
          (/\ tasks[i].kind = "deleteObjects"
           /\ tasks'[i] # tasks[i]
           /\ shell'.view = "collection") =>
             \/ /\ cv'.error.t = "str"
                /\ cv'.selectedIds = cv.selectedIds
                /\ cv'.selectionMode = cv.selectionMode
                /\ cv'.deleteModalOpen = cv.deleteModalOpen
                /\ cv'.data = cv.data /\ cv'.offset = cv.offset
                /\ ~cv'.loading
                /\ tasks' = [tasks EXCEPT ![i] = [kind |-> "none"]]
             \/ /\ cv'.error = cv.error
                /\ cv'.selectedIds = {}
                /\ ~cv'.selectionMode
                /\ ~cv'.deleteModalOpen
                /\ cv'.loading
                /\ \E j \in 1..MaxTasks :
                      /\ tasks'[j].kind = "fetchData"
                      /\ tasks'[j] # tasks[j]
                      /\ ~tasks'[j].loadMore
                      /\ tasks'[j].offset = 0
                      /\ tasks'[j].className = tasks[i].className]_vars

\* a bulk deletion has failed: the error is set, the dialog is still open on the
\* selection and nothing is suspended
C28_Witness ==
    /\ shell.view = "collection"
    /\ cv.error = JStr("Failed to delete object id1: Not Found")
    /\ cv.deleteModalOpen /\ cv.selectionMode /\ cv.selectedIds # {}
    /\ ~cv.loading
    /\ \A i \in 1..MaxTasks : tasks[i].kind = "none"


\* C29: in every state of the shell, the view 'collection' has a selected collection,
\* and the active tab is 'search' exactly when the view is 'search'
C29_NavigationStateConsistent ==
    /\ shell.view \in {"collections", "collection", "search"}
    /\ shell.activeTab \in {"collections", "search"}
    /\ shell.view = "collection" => shell.selectedCollection # JNull
    /\ shell.activeTab = "search" <=> shell.view = "search"

\* the Search tab was chosen from the view of a collection, which stays selected
C29_Witness ==
    /\ shell.hasConnection
    /\ shell.view = "search" /\ shell.activeTab = "search"
    /\ shell.selectedCollection # JNull


\* C30: when every suspended call is answered, a loading flag of the shell that is
\* set is reset later, and so are the flags of the collection view while it stays
\* mounted; and once no load of the shell (of the view) is suspended any more, its
\* flags are false, whether the loads succeeded or failed
C30_LoadsLeaveFlagsFalse ==
    /\ shell.loading ~> ~shell.loading
    /\ (shell.hasConnection /\ shell.view = "collection"
          /\ (cv.loading \/ cv.loadingMore))
          ~> (~(shell.hasConnection /\ shell.view = "collection")
                \/ (~cv.loading /\ ~cv.loadingMore))
    /\ []((\A i \in 1..MaxTasks :
              tasks[i].kind \notin {"checkConnection", "checkConnectionInitialize",
                                      "loadCollections"})
             => ~shell.loading)
    /\ []((/\ shell.hasConnection /\ shell.view = "collection"
           /\ \A i \in 1..MaxTasks : tasks[i].kind \notin {"fetchData", "deleteObjects"})
             => (~cv.loading /\ ~cv.loadingMore))

\* a Load More has failed: the rows of the first page are kept, the error is set,
\* both flags are false and nothing is suspended
C30_Witness ==
    /\ shell.hasConnection /\ shell.view = "collection"
    /\ cv.error = JStr("Query failed: Not Found")
    /\ cv.data # <<>>
    /\ ~cv.loading /\ ~cv.loadingMore /\ ~shell.loading
    /\ \A i \in 1..MaxTasks : tasks[i].kind = "none"

====
